---- MODULE Spec2Model ----
(***************************************************************************)
(* Model of hmc_road_based_attributes_to_geojson.py: the script that walks *)
(* a folder of decoded HMC partitions, merges the attribute records of     *)
(* every partition into its segment and node anchors, slices the segment   *)
(* geometry by the anchor's offsets, resolves node-to-segment and          *)
(* segment-to-node references and writes two GeoJSON files per partition.  *)
(* For a file of the address-attributes layer it then downloads the        *)
(* street-names partitions collected so far; a call of the here.platform   *)
(* library returns or raises, whichever the platform makes it do.          *)
(*                                                                         *)
(* Python objects are modelled with reference semantics where the script   *)
(* shares them: an anchor's property map stores, per collection name, the  *)
(* position of the attribute record inside hmc_json[name] (the very dict   *)
(* the script stores), and the two anchor dicts store the number of the    *)
(* partition whose anchor list they enumerate.  json.dumps is modelled by  *)
(* the *JSON operators, which follow the references.                       *)
(*                                                                         *)
(* Numbers: an offset o is held as the integer o * OffsetDen; coordinates  *)
(* and distances of sliced geometries are held multiplied by OffsetDen,    *)
(* so that every product L * offset of the script is exact.                *)
(*                                                                         *)
(* A second specification, SpecDownload, models one call of                *)
(* HmcDownloader.olp_cli_download_partition of hmc_downloader.py: the      *)
(* thread pool that downloads the requested partitions and the loop that   *)
(* follows it.  A third, SpecLayer, models one call of download_partition  *)
(* or of HmcDownloader.download_partitioned_layer.                         *)
(***************************************************************************)
EXTENDS Integers, Sequences, FiniteSets, TLC

\* ------------------------------------------------------------------ bounds
MaxAnchors == 2   \* anchors of one kind in a partition
MaxRecs == 2      \* records in one attribute collection
MaxParts == 2     \* partition files met by the directory walk
OffsetDen == 2    \* offsets are multiples of 1/OffsetDen
MaxRefs == 2      \* oriented segment references of one segment anchor

\* ------------------------------------------------------- generic helpers
Abs(x) == IF x < 0 THEN -x ELSE x

Range(s) == {s[i] : i \in 1..Len(s)}

EmptyMap == <<>>

\* a del that removes nothing
WithoutNothing(d, k) == d

\* dict without one key (del d[k])
Without(d, k) == [x \in DOMAIN d \ {k} |-> d[x]]

\* dict with d[k] = v
With(d, k, v) == [x \in DOMAIN d \cup {k} |-> IF x = k THEN v ELSE d[x]]

\* ----------------------------------------------------- JSON index values
\* A JSON index value is an int or a list of ints; v holds the ints.
IdxInt(i) == [kind |-> "int", v |-> <<i>>]
IdxList(s) == [kind |-> "list", v |-> s]

\* Python truth value of an index value: 0 and [] are falsy.
Truthy(iv) == IF iv.kind = "int" THEN iv.v[1] # 0 ELSE Len(iv.v) > 0

\* dict.get(name) followed by a truth test
GetTruthy(d, name) == name \in DOMAIN d /\ Truthy(d[name])

\* lst[idx] of a Python list of length n does not raise
PyIndexValid(n, idx) == -n <= idx /\ idx < n

\* the 1-based position lst[idx] denotes (negative idx counts from the end)
PyIndexPos(n, idx) == IF idx < 0 THEN n + idx + 1 ELSE idx + 1

\* --------------------------------------------------------- live objects
\* An anchor dict while the script runs.  rec: the fields read from the
\* file; hasProps/properties: the 'properties' key (collection name ->
\* position of the shared record in hmc_json[name]); resolved: the
\* resolved* key added by the cross-reference step, a list of references
\* to the anchors at positions idxs (0-based) of partition part.
NoResolved == [has |-> FALSE, part |-> 0, idxs |-> <<>>]

LiveAnchor(rec) ==
    [rec |-> rec, hasProps |-> FALSE, properties |-> EmptyMap, resolved |-> NoResolved]

\* json.loads of one partition file: fresh objects
LoadJson(file) ==
    [keys |-> file.keys,
     coll |-> file.coll,
     segmentAnchor |-> [i \in 1..Len(file.segmentAnchor) |-> LiveAnchor(file.segmentAnchor[i])],
     nodeAnchor |-> [i \in 1..Len(file.nodeAnchor) |-> LiveAnchor(file.nodeAnchor[i])]]

\* for anchor in list: anchor['properties'] = {}
ResetProperties(anchors) ==
    [i \in 1..Len(anchors) |-> [anchors[i] EXCEPT !.hasProps = TRUE, !.properties = EmptyMap]]

\* --------------------------------------- topology_anchor_attribute_mapping
\* street_section_ref_set after the streetSection scan
StreetSectionScan(attribute_list, street) ==
    street \cup
    {attribute_list[j].streetSectionRef.partitionName :
        j \in {i \in 1..Len(attribute_list) :
                 /\ "streetSectionRef" \in DOMAIN attribute_list[i]
                 /\ "partitionName" \in DOMAIN attribute_list[i].streetSectionRef}}

\* anchors[idx]['properties'][attribute_name] = attribute, where attribute
\* is the shared record at position j of its collection
AttachOne(anchors, idx, attribute_name, j) ==
    LET pos == PyIndexPos(Len(anchors), idx)
    IN [anchors EXCEPT ![pos].hasProps = TRUE,
                       ![pos].properties = With(@, attribute_name, j)]

\* for idx in index_value: ... ; the list subscript raises IndexError
RECURSIVE AttachAll(_, _, _, _)
AttachAll(anchors, idxs, attribute_name, j) ==
    IF idxs = <<>> THEN [anchors |-> anchors, err |-> "none"]
    ELSE IF ~PyIndexValid(Len(anchors), Head(idxs))
         THEN [anchors |-> anchors, err |-> "IndexError"]
         ELSE AttachAll(AttachOne(anchors, Head(idxs), attribute_name, j),
                        Tail(idxs), attribute_name, j)

AnchorKind(index_name) ==
    IF index_name = "nodeAnchorIndex" THEN "nodeAnchor" ELSE "segmentAnchor"

\* one pass of the loop over attribute_list, for the record at position j
MapRecord(obj, attribute_name, index_name, j) ==
    LET attribute == obj.coll[attribute_name][j]
    IN IF index_name \notin DOMAIN attribute
       THEN [obj |-> obj, err |-> "none"]
       ELSE LET residual == Without(attribute, index_name)
                obj1 == [obj EXCEPT !.coll[attribute_name][j] = residual]
                kind == AnchorKind(index_name)
            IN IF DOMAIN residual = {}
               THEN [obj |-> obj1, err |-> "none"]
               ELSE LET r == AttachAll(obj1[kind], attribute[index_name].v,
                                       attribute_name, j)
                    IN [obj |-> [obj1 EXCEPT ![kind] = r.anchors], err |-> r.err]

RECURSIVE MapRecordsFrom(_, _, _, _)
MapRecordsFrom(obj, attribute_name, index_name, j) ==
    IF j > Len(obj.coll[attribute_name]) THEN [obj |-> obj, err |-> "none"]
    ELSE LET r == MapRecord(obj, attribute_name, index_name, j)
         IN IF r.err # "none" THEN r
            ELSE MapRecordsFrom(r.obj, attribute_name, index_name, j + 1)

\* the whole function: the state it leaves and the exception it raised
topology_anchor_attribute_mapping(obj, street, attribute_name, index_name) ==
    LET street1 == IF attribute_name = "streetSection"
                   THEN StreetSectionScan(obj.coll[attribute_name], street)
                   ELSE street
        r == MapRecordsFrom(obj, attribute_name, index_name, 1)
    IN [obj |-> r.obj, street |-> street1, err |-> r.err]

\* ------------------------------------------------------------ merge passes
\* the index field the segment pass finds on the first record, "" if none
SegmentIndexName(first) ==
    IF GetTruthy(first, "segmentAnchorIndex") THEN "segmentAnchorIndex"
    ELSE IF GetTruthy(first, "originSegmentAnchorIndex") THEN "originSegmentAnchorIndex"
    ELSE IF GetTruthy(first, "originatingSegmentAnchorIndex")
         THEN "originatingSegmentAnchorIndex"
    ELSE ""

\* the index field the node pass finds on some record, "" if none
NodeIndexName(attribute_list) ==
    IF \E j \in 1..Len(attribute_list) : GetTruthy(attribute_list[j], "nodeAnchorIndex")
    THEN "nodeAnchorIndex" ELSE ""

\* for key in list(hmc_json.keys()): ... from the key at position i on
RECURSIVE SegmentMergeKeys(_, _, _)
SegmentMergeKeys(obj, street, i) ==
    IF i > Len(obj.keys) THEN [obj |-> obj, street |-> street, err |-> "none"]
    ELSE LET key == obj.keys[i]
             index_name == IF Len(obj.coll[key]) > 0
                           THEN SegmentIndexName(obj.coll[key][1]) ELSE ""
         IN IF index_name = "" THEN SegmentMergeKeys(obj, street, i + 1)
            ELSE LET r == topology_anchor_attribute_mapping(obj, street, key, index_name)
                 IN IF r.err # "none" THEN r
                    ELSE SegmentMergeKeys(r.obj, r.street, i + 1)

RECURSIVE NodeMergeKeys(_, _, _)
NodeMergeKeys(obj, street, i) ==
    IF i > Len(obj.keys) THEN [obj |-> obj, street |-> street, err |-> "none"]
    ELSE LET key == obj.keys[i]
             index_name == NodeIndexName(obj.coll[key])
         IN IF index_name = "" THEN NodeMergeKeys(obj, street, i + 1)
            ELSE LET r == topology_anchor_attribute_mapping(obj, street, key, index_name)
                 IN IF r.err # "none" THEN r
                    ELSE NodeMergeKeys(r.obj, r.street, i + 1)

\* lines 122-134
SegmentMerge(obj, street) ==
    SegmentMergeKeys([obj EXCEPT !.segmentAnchor = ResetProperties(@)], street, 1)

\* lines 224-230
NodeMerge(obj, street) ==
    NodeMergeKeys([obj EXCEPT !.nodeAnchor = ResetProperties(@)], street, 1)

\* ---------------------------------------------------------------- geometry
\* A position is <<x, y>>; a line is a sequence of positions whose
\* consecutive positions differ in one coordinate at most, so that the
\* Euclidean length of every piece is an integer.
Sign(x) == IF x < 0 THEN -1 ELSE IF x > 0 THEN 1 ELSE 0

SegLen(p, q) == Abs(q[1] - p[1]) + Abs(q[2] - p[2])

RECURSIVE LineLength(_)
LineLength(g) == IF Len(g) < 2 THEN 0 ELSE SegLen(g[1], g[2]) + LineLength(Tail(g))

\* coordinates in units of 1/OffsetDen
Scale(g) == [i \in 1..Len(g) |-> <<OffsetDen * g[i][1], OffsetDen * g[i][2]>>]

\* the position at distance c from p towards q
Along(p, q, c) == <<p[1] + Sign(q[1] - p[1]) * c, p[2] + Sign(q[2] - p[2]) * c>>

RECURSIVE PointAt(_, _)
PointAt(g, c) ==
    IF Len(g) = 1 THEN g[1]
    ELSE LET s == SegLen(g[1], g[2])
         IN IF c <= s THEN Along(g[1], g[2], c) ELSE PointAt(Tail(g), c - s)

\* LineString.interpolate(d): a negative d counts from the end, and d is
\* clipped to the line
Interpolate(g, d) ==
    LET L == LineLength(g)
        dd == IF d < 0 THEN L + d ELSE d
        c == IF dd < 0 THEN 0 ELSE IF dd > L THEN L ELSE dd
    IN PointAt(g, c)

\* the vertices p1 of the pairs (p1, p2) of g met at a distance strictly
\* between lo and hi; cur is the distance of g[1]
RECURSIVE InnerVertices(_, _, _, _)
InnerVertices(g, cur, lo, hi) ==
    IF Len(g) < 2 THEN <<>>
    ELSE (IF lo < cur /\ cur < hi THEN <<g[1]>> ELSE <<>>)
         \o InnerVertices(Tail(g), cur + SegLen(g[1], g[2]), lo, hi)

RECURSIVE Reverse(_)
Reverse(s) == IF s = <<>> THEN <<>> ELSE Append(Reverse(Tail(s)), Head(s))

ShapelyPoint(p) == [type |-> "Point", coords |-> <<p>>]
ShapelyLine(c) == [type |-> "LineString", coords |-> c]

\* shapely.ops.substring(geom, start_dist, end_dist) of shapely 2, the
\* library whose from_geojson and to_geojson lines 158-167 call, by the
\* branches of the function in their order: equal distances, both distances
\* past the end, both before the start, and distances that meet at one point
\* from opposite ends (a negative distance counts from the end) give the
\* Point there; every other pair gives the LineString from the start point
\* over the vertices strictly between the two to the end point. The script
\* passes length * offset, which is negative only for a negative offset.
Substring(g, start_dist, end_dist) ==
    LET L == LineLength(g)
    IN IF start_dist = end_dist THEN ShapelyPoint(Interpolate(g, start_dist))
       ELSE IF start_dist >= L /\ end_dist >= L THEN ShapelyPoint(Interpolate(g, L))
       ELSE IF -start_dist >= L /\ -end_dist >= L THEN ShapelyPoint(Interpolate(g, 0))
       ELSE IF start_dist < 0 /\ 0 < end_dist /\ Abs(start_dist) + end_dist = L
            THEN ShapelyPoint(Interpolate(g, end_dist))
       ELSE IF end_dist < 0 /\ 0 < start_dist /\ Abs(end_dist) + start_dist = L
            THEN ShapelyPoint(Interpolate(g, start_dist))
       ELSE LET start_point == Interpolate(g, start_dist)
                end_point == Interpolate(g, end_dist)
                s1 == IF start_dist < 0 THEN L + start_dist ELSE start_dist
                e1 == IF end_dist < 0 THEN L + end_dist ELSE end_dist
                reverse == s1 > e1
                lo0 == IF reverse THEN e1 ELSE s1
                hi == IF reverse THEN s1 ELSE e1
                lo == IF lo0 < 0 THEN 0 ELSE lo0
                inner == InnerVertices(g, 0, lo, hi)
            IN IF reverse
               THEN ShapelyLine(Reverse(<<end_point>> \o inner \o <<start_point>>))
               ELSE ShapelyLine(<<start_point>> \o inner \o <<end_point>>)

\* geojson.geometry.Point(obj) / LineString(obj) of the parsed shapely
\* result obj: clean_coordinates takes obj's coordinates when obj is of the
\* class built, and wraps them in a list otherwise.  depth is the nesting
\* depth of the coordinates array (1: a position, 2: a list of positions).
ObjDepth(obj) == IF obj.type = "Point" THEN 1 ELSE 2

GeojsonGeometry(cls, obj) ==
    [type |-> cls,
     depth |-> IF obj.type = cls THEN ObjDepth(obj) ELSE ObjDepth(obj) + 1,
     coordinates |-> obj.coords]

\* the geometry index of the folder: hmc_layer_cross_referencing's segment
\* and node features by identifier
SegmentFeatureMap ==
    (1 :> << <<0, 0>>, <<2, 0>> >>) @@
    (2 :> << <<0, 0>>, <<1, 0>>, <<1, 2>> >>) @@
    (3 :> << <<1, 1>>, <<1, 1>> >>)

NodeFeatureMap == (1 :> <<0, 0>>) @@ (2 :> <<1, 2>>)

\* lines 149-156
segment_start_offset(anchor) ==
    IF "firstSegmentStartOffset" \in DOMAIN anchor /\ anchor.firstSegmentStartOffset # 0
    THEN anchor.firstSegmentStartOffset ELSE 0

segment_end_offset(anchor) ==
    IF "lastSegmentEndOffset" \in DOMAIN anchor /\ anchor.lastSegmentEndOffset # 0
    THEN anchor.lastSegmentEndOffset ELSE OffsetDen

\* lines 157-175: the geometry of the Feature built for one reference that
\* the index resolves
SegmentGeometry(anchor, identifier) ==
    LET g == Scale(SegmentFeatureMap[identifier])
        feature_geometry_length == LineLength(g)
        start_dist == (feature_geometry_length * segment_start_offset(anchor)) \div OffsetDen
        end_dist == (feature_geometry_length * segment_end_offset(anchor)) \div OffsetDen
        with_offsets == Substring(g, start_dist, end_dist)
    IN IF segment_start_offset(anchor) = segment_end_offset(anchor)
       THEN GeojsonGeometry("Point", with_offsets)
       ELSE GeojsonGeometry("LineString", with_offsets)

\* ------------------------------------------------------------------- state
VARIABLES
    files,            \* the partition files the walk meets, in order
    overwrite_result, \* the command line's overwrite flag, lower-cased
    fs,               \* fs[p][kind]: the output file of kind for partition p
    f,                \* number of the partition file being processed
    pc,               \* where the script is
    hmc_json,         \* hmc_json[p]: the objects json.loads built for file p
    segment_anchor_dict,  \* 0: unbound; p: enumerates hmc_json[p].segmentAnchor
    node_anchor_dict,     \* 0: unbound; p: enumerates hmc_json[p].nodeAnchor
    street_section_ref_set,
    segment_anchor_with_topology_list,  \* Features built: anchor position, geometry
    node_anchor_with_topology_list,
    anchor_index,     \* segment_/node_anchor_with_attributes_index
    err,              \* the uncaught exception that ended the run, or "none"
    street_names_left,  \* street-name partitions the loop of line 275 has yet to pass
    decoded,          \* the street-names files under decoded/: <<partition, version>>
    stdout            \* what the script has printed, in order

\* the state of the script, its output excepted
script_vars == <<files, overwrite_result, fs, f, pc, hmc_json, segment_anchor_dict,
                 node_anchor_dict, street_section_ref_set,
                 segment_anchor_with_topology_list, node_anchor_with_topology_list,
                 anchor_index, err, street_names_left, decoded>>

\* what lines 262-279 add to the state of the script
street_name_vars == <<street_names_left, decoded>>

\* The state of one call of HmcDownloader.olp_cli_download_partition
\* (hmc_downloader.py), the download layer beside the script.
VARIABLES
    quad_ids,         \* the partition ids requested, in order
    max_workers,      \* size of the thread pool
    version,          \* <<>> for None, <<v>> for a version given by the caller
    catalog_version,  \* the version the catalog reports for its partitions
    call,             \* where the calling thread is
    partition_index,  \* number of ids the loop of the calling thread has passed
    futures,          \* futures[i]: the work item submitted for quad_ids[i]
    sequential,       \* the download the loop of lines 281-296 is in
    cli_downloads     \* number of CLI downloads started, by output file path

\* The state of a call of the other functions of hmc_downloader.py that read
\* the catalog: download_partition, download_partitioned_layer,
\* get_country_tile_indexes and get_country_admin_indexes.
VARIABLES
    method,           \* download_partition's method
    write_to_file,    \* download_partitioned_layer's write_to_file
    partitions,       \* the partitions read that the loop (338, 353, 373) has yet to pass
    partition_data,   \* <<>> for unset, <<ids>> for the partitions stored at line 341
    sdk_files,        \* the partition ids whose <id>.json line 62 has opened
    results           \* the list get_country_tile_indexes and
                      \* get_country_admin_indexes return (lines 352, 372)

layer_vars == <<method, write_to_file, partitions, partition_data, sdk_files, results>>

download_vars == <<quad_ids, max_workers, version, catalog_version, call, partition_index,
                   futures, sequential, cli_downloads, layer_vars>>

vars == <<script_vars, stdout, download_vars>>

\* ------------------------------------------------------------ output files
\* text: "none" (no file), "old" (left by an earlier run), "empty" (opened
\* with mode 'w', nothing written), "collection" (a FeatureCollection)
NoFile == [exists |-> FALSE, text |-> "none", features |-> <<>>]
OldFile == [exists |-> TRUE, text |-> "old", features |-> <<>>]
EmptyFile == [exists |-> TRUE, text |-> "empty", features |-> <<>>]
WrittenFile(features) == [exists |-> TRUE, text |-> "collection", features |-> features]

\* -------------------------------------------------------------- json.dumps
\* a property map with its shared records
PropsJSON(obj, properties) ==
    [name \in DOMAIN properties |-> obj.coll[name][properties[name]]]

\* a segment anchor dict: its own fields, 'properties' once set, and
\* 'resolvedNodeAnchors' once set (in this model always the empty list)
SegAnchorJSON(obj, a) ==
    LET withProps == IF a.hasProps
                     THEN With(a.rec, "properties", PropsJSON(obj, a.properties))
                     ELSE a.rec
    IN IF a.resolved.has THEN With(withProps, "resolvedNodeAnchors", <<>>) ELSE withProps

\* a node anchor's property map: the records, and 'resolvedSegmentAnchors'
\* once set: the segment anchor dicts it refers to
NodePropsJSON(heap, obj, a) ==
    LET props == PropsJSON(obj, a.properties)
        peer == heap[a.resolved.part]
    IN IF a.resolved.has
       THEN With(props, "resolvedSegmentAnchors",
                 [i \in 1..Len(a.resolved.idxs) |->
                     SegAnchorJSON(peer, peer.segmentAnchor[a.resolved.idxs[i] + 1])])
       ELSE props

\* anchor is the position of the anchor the Feature was built from; it is
\* bookkeeping of the model and not part of the file
SegmentFeatureJSON(obj, h) ==
    [type |-> "Feature", geometry |-> h.geometry, anchor |-> h.anchor,
     properties |-> SegAnchorJSON(obj, obj.segmentAnchor[h.anchor + 1])]

NodeFeatureJSON(heap, obj, h) ==
    [type |-> "Feature", geometry |-> h.geometry, anchor |-> h.anchor,
     properties |-> NodePropsJSON(heap, obj, obj.nodeAnchor[h.anchor + 1])]

\* --------------------------------------------------- segment anchor loop
\* segment_feature_map.get(identifier) is not None
SegmentFeatureFound(identifier) == identifier \in DOMAIN SegmentFeatureMap

\* lines 176-184: props is the anchor dict itself; its only dict-valued
\* key is 'properties', so the test reads the collection names.  The
\* indices are then the keys of a record, none of which is a key of
\* node_anchor_dict.
SegmentCrossReference(a, node_dict) ==
    IF a.hasProps /\ "nodeAnchorIndex" \in DOMAIN a.properties
    THEN IF node_dict = 0
         THEN [anchor |-> a, err |-> "NameError"]
         ELSE [anchor |-> [a EXCEPT !.resolved = [has |-> TRUE, part |-> node_dict,
                                                  idxs |-> <<>>]],
               err |-> "none"]
    ELSE [anchor |-> a, err |-> "none"]

\* for oriented_segment_ref in oriented_segment_refs: ... from reference r on
RECURSIVE SegmentRefsFrom(_, _, _, _, _)
SegmentRefsFrom(a, k, r, built, node_dict) ==
    IF r > Len(a.rec.orientedSegmentRef)
    THEN [anchor |-> a, built |-> built, err |-> "none"]
    ELSE LET identifier == a.rec.orientedSegmentRef[r]
         IN IF ~SegmentFeatureFound(identifier)
            THEN SegmentRefsFrom(a, k, r + 1, built, node_dict)
            ELSE LET x == SegmentCrossReference(a, node_dict)
                     h == [anchor |-> k, geometry |-> SegmentGeometry(a.rec, identifier)]
                 IN IF x.err # "none"
                    THEN [anchor |-> a, built |-> built, err |-> x.err]
                    ELSE SegmentRefsFrom(x.anchor, k, r + 1, Append(built, h), node_dict)

\* the loop with a subscript lookup segment_feature_map[identifier] in place
\* of .get(): the first reference the index lacks raises KeyError
SegmentAnchorStepKeyError(a, k, node_dict) ==
    IF \E r \in 1..Len(a.rec.orientedSegmentRef) :
           ~SegmentFeatureFound(a.rec.orientedSegmentRef[r])
    THEN [anchor |-> a, built |-> <<>>, err |-> "KeyError"]
    ELSE SegmentRefsFrom(a, k, 1, <<>>, node_dict)

\* lines 138-197 for the anchor at position k (0-based)
SegmentAnchorStep(a, k, node_dict) == SegmentRefsFrom(a, k, 1, <<>>, node_dict)

\* ------------------------------------------------------ node anchor loop
NodeFeatureFound(identifier) == identifier \in DOMAIN NodeFeatureMap

\* the indices of a resolved list: those that are keys of the anchor dict
RECURSIVE KeysFound(_, _)
KeysFound(indices, n) ==
    IF indices = <<>> THEN <<>>
    ELSE (IF 0 <= Head(indices) /\ Head(indices) < n THEN <<Head(indices)>> ELSE <<>>)
         \o KeysFound(Tail(indices), n)

\* lines 246-253, for the property keys in insertion order from key i on
RECURSIVE NodeCrossReferenceFrom(_, _, _, _, _)
NodeCrossReferenceFrom(heap, obj, a, i, seg_dict) ==
    IF i > Len(obj.keys) THEN [anchor |-> a, err |-> "none"]
    ELSE LET name == obj.keys[i]
         IN IF name \notin DOMAIN a.properties
            THEN NodeCrossReferenceFrom(heap, obj, a, i + 1, seg_dict)
            ELSE LET attr_val == obj.coll[name][a.properties[name]]
                 IN IF "segmentAnchorIndex" \notin DOMAIN attr_val
                    THEN NodeCrossReferenceFrom(heap, obj, a, i + 1, seg_dict)
                    ELSE LET indices == attr_val.segmentAnchorIndex.v
                         IN IF indices # <<>> /\ seg_dict = 0
                            THEN [anchor |-> a, err |-> "NameError"]
                            ELSE LET n == IF seg_dict = 0 THEN 0
                                          ELSE Len(heap[seg_dict].segmentAnchor)
                                     a1 == [a EXCEPT !.resolved =
                                              [has |-> TRUE, part |-> seg_dict,
                                               idxs |-> KeysFound(indices, n)]]
                                 IN NodeCrossReferenceFrom(heap, obj, a1, i + 1, seg_dict)

\* lines 232-254 for the anchor at position k (0-based); when line 251
\* raises, the anchor keeps what line 253 stored for an earlier key
NodeAnchorStep(heap, obj, a, k, seg_dict) ==
    IF ~NodeFeatureFound(a.rec.nodeRef)
    THEN [anchor |-> a, built |-> <<>>, err |-> "none"]
    ELSE LET x == NodeCrossReferenceFrom(heap, obj, a, 1, seg_dict)
             h == [anchor |-> k,
                   geometry |-> [type |-> "Point", depth |-> 1,
                                 coordinates |-> <<NodeFeatureMap[a.rec.nodeRef]>>]]
         IN IF x.err # "none" THEN [anchor |-> x.anchor, built |-> <<>>, err |-> x.err]
            ELSE [anchor |-> x.anchor, built |-> <<h>>, err |-> "none"]

\* ------------------------------------------------------------------ inputs
\* a partition file: the collection keys in file order, the collections,
\* the two anchor lists (an absent list and an empty one behave alike), and
\* what lines 88-90 read from its name <layer>_<partition>_v<version>.json
File(keys, coll, segs, nodes) ==
    [keys |-> keys, coll |-> coll, segmentAnchor |-> segs, nodeAnchor |-> nodes,
     road_attribute_layer |-> "road-attributes", partition_version |-> 1]

\* the same file under the name layer_<partition>_v<ver>.json
Named(file, layer, ver) ==
    [file EXCEPT !.road_attribute_layer = layer, !.partition_version = ver]

DefaultSegmentAnchor == [orientedSegmentRef |-> <<1>>]
DefaultNodeAnchor == [nodeRef |-> 1]
DefaultSegmentAnchors == [i \in 1..MaxAnchors |-> DefaultSegmentAnchor]
DefaultNodeAnchors == [i \in 1..MaxAnchors |-> DefaultNodeAnchor]

IndexNames == {"segmentAnchorIndex", "nodeAnchorIndex", "originSegmentAnchorIndex",
               "originatingSegmentAnchorIndex"}

\* index values: every scalar from -1 to one past the last anchor, a list
\* of valid positions, a list with a position past the end, the empty list
IndexValues ==
    {IdxInt(i) : i \in -1..MaxAnchors}
    \cup {IdxList(<<0, 1>>), IdxList(<<1, MaxAnchors>>), IdxList(<<>>)}

\* the choice of a record that carries no index field
NoIndex == [kind |-> "none", v |-> <<>>]

\* a record with one index field (none when iv is NoIndex) and, when
\* value # 0, a payload field
Record1(index_name, iv, value) ==
    LET index == IF iv = NoIndex THEN EmptyMap ELSE (index_name :> iv)
    IN IF value = 0 THEN index ELSE index @@ ("value" :> value)

\* a record attached through attach_name that also refers to anchors of
\* the other kind through cross_name
Record2(attach_name, attach_iv, cross_name, cross_iv, value) ==
    (attach_name :> attach_iv) @@ (cross_name :> cross_iv) @@ ("value" :> value)

NoFiles(n) == [p \in 1..n |-> [segments |-> NoFile, nodes |-> NoFile]]

\* merge inputs: one collection of n records under one index field, record
\* j with index value c[j][1] (or no index field) and, when c[j][2], the
\* payload j
MergeFile(index_name, n, c) ==
    File(<<"speedLimit">>,
         "speedLimit" :> [j \in 1..n |-> Record1(index_name, c[j][1],
                                                 IF c[j][2] THEN j ELSE 0)],
         DefaultSegmentAnchors, DefaultNodeAnchors)

\* cross-reference inputs, node to segment: one node collection whose
\* record j is attached to node anchor j % MaxAnchors and refers to segment
\* anchors by the index value c[j]
NodeCrossFile(n, c, segs, nodes) ==
    File(<<"intersection">>,
         "intersection" :> [j \in 1..n |->
             Record2("nodeAnchorIndex", IdxInt(j % MaxAnchors),
                     "segmentAnchorIndex", c[j], j)],
         segs, nodes)

\* node anchors of which the first has an identifier the node index lacks
UnresolvedFirstNodeAnchors ==
    [i \in 1..MaxAnchors |-> IF i = 1 THEN [nodeRef |-> 3] ELSE DefaultNodeAnchor]

\* cross-reference inputs with two collections: the one record of each is
\* attached to node anchor 1 and refers to segment anchors by c[1] and c[2]
NodeCrossTwoFile(c) ==
    File(<<"intersection", "signal">>,
         ("intersection" :> <<Record2("nodeAnchorIndex", IdxInt(1),
                                      "segmentAnchorIndex", c[1], 1)>>)
         @@ ("signal" :> <<Record2("nodeAnchorIndex", IdxInt(1),
                                   "segmentAnchorIndex", c[2], 2)>>),
         DefaultSegmentAnchors, DefaultNodeAnchors)

\* cross-reference inputs, segment to node: one segment collection whose
\* record j is attached to segment anchor j % MaxAnchors and refers to node
\* anchors by the index value c[j]
SegmentCrossFile(n, c) ==
    File(<<"speedLimit">>,
         "speedLimit" :> [j \in 1..n |->
             Record2("segmentAnchorIndex", IdxInt(j % MaxAnchors),
                     "nodeAnchorIndex", c[j], j)],
         DefaultSegmentAnchors, DefaultNodeAnchors)

\* street-section inputs: a streetSection collection of n records, record j
\* with the payload j, the index value c[j][1] under index_name and the
\* reference c[j][2]:
\* 0 no streetSectionRef, -1 a streetSectionRef without partitionName,
\* otherwise a streetSectionRef with that partitionName
StreetIndexValues == {IdxInt(0), IdxInt(1)}
StreetRefs == {0, -1, 1, 2}

StreetSectionRecord(index_name, iv, ref, value) ==
    LET base == Record1(index_name, iv, value)
    IN IF ref = 0 THEN base
       ELSE IF ref = -1 THEN base @@ ("streetSectionRef" :> [identifier |-> 1])
       ELSE base @@ ("streetSectionRef" :> [partitionName |-> ref])

StreetSectionFile(index_name, n, c) ==
    File(<<"streetSection">>,
         "streetSection" :> [j \in 1..n |->
             StreetSectionRecord(index_name, c[j][1], c[j][2], j)],
         DefaultSegmentAnchors, DefaultNodeAnchors)

\* a partition processed before, whose streetSection collection refers to
\* the partition 3
LeadStreetSectionFile ==
    File(<<"streetSection">>,
         "streetSection" :> <<StreetSectionRecord("segmentAnchorIndex", IdxInt(1), 3, 1)>>,
         DefaultSegmentAnchors, <<>>)

\* inputs with a collection whose name is "nodeAnchorIndex": its record is
\* attached to the segment anchors 0 and 1, so that line 178 finds the key
\* in their property maps; the record of the second collection is attached
\* to node anchor 1 and refers to segment anchors by c
IndexNamedFile(c) ==
    File(<<"nodeAnchorIndex", "intersection">>,
         ("nodeAnchorIndex" :> <<Record1("segmentAnchorIndex", IdxList(<<0, 1>>), 1)>>)
         @@ ("intersection" :> <<Record2("nodeAnchorIndex", IdxInt(1),
                                         "segmentAnchorIndex", c, 2)>>),
         DefaultSegmentAnchors, DefaultNodeAnchors)

\* a partition processed before, with node anchors only
LeadNodeFile == File(<<>>, EmptyMap, <<>>, DefaultNodeAnchors)

\* collision inputs: two collections under one index field; the two
\* records of the first have the index values c[1] and c[2], the one record
\* of the second c[3]; record j carries the payload j
CollisionValues == {IdxInt(0), IdxInt(1), IdxList(<<1, 0>>)}

CollisionFile(index_name, c) ==
    File(<<"speedLimit", "signal">>,
         ("speedLimit" :> <<Record1(index_name, c[1], 1), Record1(index_name, c[2], 2)>>)
         @@ ("signal" :> <<Record1(index_name, c[3], 3)>>),
         DefaultSegmentAnchors, DefaultNodeAnchors)

\* geometry inputs: identifiers 1..3 are in the segment index (3 with a
\* line of length 0), 4 is not; offsets run from 0 to one step past 1
SegmentIds == 1..4
OffsetValues == 0..(OffsetDen + 1)
StartFields == {EmptyMap} \cup {("firstSegmentStartOffset" :> o) : o \in OffsetValues}
EndFields == {EmptyMap} \cup {("lastSegmentEndOffset" :> o) : o \in OffsetValues}

RECURSIVE SeqsOfLen(_, _)
SeqsOfLen(S, n) ==
    IF n = 0 THEN {<<>>} ELSE {Append(q, x) : q \in SeqsOfLen(S, n - 1), x \in S}

\* one reference with any offsets, or several references with the defaults
SegmentShapes ==
    {("orientedSegmentRef" :> <<id>>) @@ st @@ en :
        id \in SegmentIds, st \in StartFields, en \in EndFields}
    \cup {("orientedSegmentRef" :> refs) :
        refs \in UNION {SeqsOfLen(SegmentIds, n) : n \in 2..MaxRefs}}

SiblingShapes == {[orientedSegmentRef |-> <<1>>], [orientedSegmentRef |-> <<4>>]}

\* n segment anchors: the one at position q of any shape, its siblings with
\* one reference that resolves or does not
SegmentGeometryFile(n, q, shape, sib) ==
    File(<<>>, EmptyMap, [i \in 1..n |-> IF i = q THEN shape ELSE sib[i]], <<>>)

\* n node anchors; identifier 3 is not in the node index
NodeIds == 1..3

NodeGeometryFile(n, ids) ==
    File(<<>>, EmptyMap, <<>>, [i \in 1..n |-> [nodeRef |-> ids[i]]])

\* runs over several partitions, each with or without segment anchors and
\* node anchors, with any output files left by an earlier run and either
\* overwrite flag
CrossRecord == Record2("nodeAnchorIndex", IdxInt(1), "segmentAnchorIndex",
                       IdxList(<<0, 1>>), 1)

\* a partition whose one attribute record names a segment anchor past the end
MalformedFile ==
    File(<<"speedLimit">>,
         "speedLimit" :> <<Record1("segmentAnchorIndex", IdxInt(MaxAnchors), 1)>>,
         DefaultSegmentAnchors, <<>>)

RunFiles ==
    {File(<<"intersection">>, "intersection" :> <<CrossRecord>>, segs, nodes) :
        segs \in {<<>>, DefaultSegmentAnchors}, nodes \in {<<>>, DefaultNodeAnchors}}
    \cup {MalformedFile}

OldFiles == [segments : {NoFile, OldFile}, nodes : {NoFile, OldFile}]

\* ----------------------------------------------------------------- actions
\* the state when the script starts on the folder fl with the flag o and
\* the output files old
Start(fl, o, old) ==
    /\ files = fl
    /\ overwrite_result = o
    /\ fs = old
    /\ f = 0
    /\ pc = "walk"
    /\ hmc_json = <<>>
    /\ segment_anchor_dict = 0
    /\ node_anchor_dict = 0
    /\ street_section_ref_set = {}
    /\ segment_anchor_with_topology_list = <<>>
    /\ node_anchor_with_topology_list = <<>>
    /\ anchor_index = 0
    /\ err = "none"
    /\ street_names_left = {}
    /\ decoded = {}
    /\ stdout = <<>>

InitMerge ==
    \E index_name \in IndexNames, n \in 1..MaxRecs :
        \E c \in [1..n -> (IndexValues \cup {NoIndex}) \X BOOLEAN] :
            Start(<<MergeFile(index_name, n, c)>>, "n", NoFiles(1))

InitNodeCross ==
    \E n \in 1..MaxRecs, segs \in {<<>>, DefaultSegmentAnchors}, old \in {NoFile, OldFile} :
        \E c \in [1..n -> IndexValues],
           nodes \in {DefaultNodeAnchors, UnresolvedFirstNodeAnchors} :
            Start(<<NodeCrossFile(n, c, segs, nodes)>>, "n",
                  <<[segments |-> old, nodes |-> NoFile]>>)

InitNodeCrossTwo ==
    \E c \in [1..2 -> IndexValues], old \in {NoFile, OldFile} :
        Start(<<NodeCrossTwoFile(c)>>, "n", <<[segments |-> old, nodes |-> NoFile]>>)

InitSegmentCross ==
    \E n \in 1..MaxRecs :
        \E c \in [1..n -> IndexValues] :
            Start(<<SegmentCrossFile(n, c)>>, "n", NoFiles(1))

InitSegmentGeometry ==
    \E n \in 1..MaxAnchors, shape \in SegmentShapes :
        \E q \in 1..n, sib \in [1..n -> SiblingShapes] :
            Start(<<SegmentGeometryFile(n, q, shape, sib)>>, "n", NoFiles(1))

InitNodeGeometry ==
    \E n \in 1..MaxAnchors :
        \E ids \in [1..n -> NodeIds] :
            Start(<<NodeGeometryFile(n, ids)>>, "n", NoFiles(1))

InitStreetSection ==
    \E index_name \in {"segmentAnchorIndex", "nodeAnchorIndex"}, n \in 1..MaxRecs,
       lead \in {<<>>, <<LeadStreetSectionFile>>} :
        \E c \in [1..n -> StreetIndexValues \X StreetRefs] :
            Start(lead \o <<StreetSectionFile(index_name, n, c)>>, "n",
                  NoFiles(Len(lead) + 1))

\* folders of the address-attributes layer: a partition whose streetSection
\* record refers to ref, alone or after a partition that refers to 3
InitStreetNames ==
    \E ref \in StreetRefs, lead \in {<<>>, <<LeadStreetSectionFile>>} :
        LET fl == lead \o <<StreetSectionFile("segmentAnchorIndex", 1,
                                              <<<<IdxInt(1), ref>>>>)>>
        IN Start([p \in 1..Len(fl) |-> Named(fl[p], "address-attributes", 1)], "n",
                 NoFiles(Len(fl)))

InitIndexNamed ==
    \E c \in IndexValues, lead \in {<<>>, <<LeadNodeFile>>} :
        Start(lead \o <<IndexNamedFile(c)>>, "n", NoFiles(Len(lead) + 1))

InitCollision ==
    \E index_name \in {"segmentAnchorIndex", "nodeAnchorIndex"} :
        \E c \in [1..3 -> CollisionValues] :
            Start(<<CollisionFile(index_name, c)>>, "n", NoFiles(1))

InitRun ==
    \E n \in 1..MaxParts, o \in {"y", "n"} :
        \E fl \in [1..n -> RunFiles], old \in [1..n -> OldFiles] :
            Start(fl, o, old)

\* no call of download_partition, download_partitioned_layer or the two
\* get_country functions is under way
NoLayerCall ==
    /\ method = "cli"
    /\ write_to_file = TRUE
    /\ partitions = <<>>
    /\ partition_data = <<>>
    /\ sdk_files = {}
    /\ results = <<>>

\* no call of olp_cli_download_partition is under way
NoCall ==
    /\ quad_ids = <<>>
    /\ max_workers = 1
    /\ version = <<>>
    /\ catalog_version = 1
    /\ call = "none"
    /\ partition_index = 0
    /\ futures = <<>>
    /\ sequential = [state |-> "idle", ver |-> 0]
    /\ cli_downloads = EmptyMap
    /\ NoLayerCall

\* the script runs while no download call is under way
Init ==
    /\ NoCall
    /\ \/ InitMerge
       \/ InitNodeCross
       \/ InitNodeCrossTwo
       \/ InitSegmentCross
       \/ InitSegmentGeometry
       \/ InitNodeGeometry
       \/ InitStreetSection
       \/ InitStreetNames
       \/ InitIndexNamed
       \/ InitCollision
       \/ InitRun

\* a line of output: what it says and the partition file it names
Printed(msg, p) == [msg |-> msg, part |-> p]

\* the exception leaves the with block, which closes the file, and ends
\* the script
Crash(e) == pc' = "crashed" /\ err' = e

\* lines 85-101: the walk meets the next partition file and loads it
Walk ==
    /\ pc = "walk" /\ f < Len(files)
    /\ f' = f + 1
    /\ hmc_json' = Append(hmc_json, LoadJson(files[f + 1]))
    /\ pc' = "segments"
    /\ stdout' = Append(stdout, Printed("path", f + 1))
    /\ UNCHANGED <<download_vars, street_name_vars,
                   files, overwrite_result, fs, segment_anchor_dict,
                   node_anchor_dict, street_section_ref_set,
                   segment_anchor_with_topology_list, node_anchor_with_topology_list,
                   anchor_index, err>>

\* line 109: no segment anchors
SegmentNone ==
    /\ pc = "segments" /\ hmc_json[f].segmentAnchor = <<>>
    /\ pc' = "nodes"
    /\ UNCHANGED <<download_vars, street_name_vars,
                   stdout, files, overwrite_result, fs, f, hmc_json,
                   segment_anchor_dict, node_anchor_dict, street_section_ref_set,
                   segment_anchor_with_topology_list, node_anchor_with_topology_list,
                   anchor_index, err>>

\* the skip branch with the file opened for writing all the same
SegmentSkipTruncating ==
    /\ pc = "segments" /\ hmc_json[f].segmentAnchor # <<>>
    /\ fs[f].segments.exists /\ overwrite_result # "y"
    /\ segment_anchor_dict' = f
    /\ fs' = [fs EXCEPT ![f].segments = EmptyFile]
    /\ pc' = "nodes"
    /\ stdout' = Append(stdout, Printed("segments existing already", f))
    /\ UNCHANGED <<download_vars, street_name_vars,
                   files, overwrite_result, f, hmc_json, node_anchor_dict,
                   street_section_ref_set, segment_anchor_with_topology_list,
                   node_anchor_with_topology_list, anchor_index, err>>

\* the skip branch without its print
SegmentSkipSilent ==
    /\ pc = "segments" /\ hmc_json[f].segmentAnchor # <<>>
    /\ fs[f].segments.exists /\ overwrite_result # "y"
    /\ segment_anchor_dict' = f
    /\ pc' = "nodes"
    /\ UNCHANGED <<download_vars, street_name_vars, stdout, files, overwrite_result, fs,
                   f, hmc_json, node_anchor_dict, street_section_ref_set,
                   segment_anchor_with_topology_list, node_anchor_with_topology_list,
                   anchor_index, err>>

\* lines 110-113: the segments file exists and is kept
SegmentSkip ==
    /\ pc = "segments" /\ hmc_json[f].segmentAnchor # <<>>
    /\ fs[f].segments.exists /\ overwrite_result # "y"
    /\ segment_anchor_dict' = f
    /\ pc' = "nodes"
    /\ stdout' = Append(stdout, Printed("segments existing already", f))
    /\ UNCHANGED <<download_vars, street_name_vars,
                   files, overwrite_result, fs, f, hmc_json,
                   node_anchor_dict, street_section_ref_set,
                   segment_anchor_with_topology_list, node_anchor_with_topology_list,
                   anchor_index, err>>

\* lines 110-120: the segments file is opened for writing
SegmentOpen ==
    /\ pc = "segments" /\ hmc_json[f].segmentAnchor # <<>>
    /\ ~(fs[f].segments.exists /\ overwrite_result # "y")
    /\ segment_anchor_dict' = f
    /\ fs' = [fs EXCEPT ![f].segments = EmptyFile]
    /\ anchor_index' = 0
    /\ pc' = "segment_merge"
    /\ UNCHANGED <<download_vars, street_name_vars,
                   stdout, files, overwrite_result, f, hmc_json,
                   node_anchor_dict, street_section_ref_set,
                   segment_anchor_with_topology_list, node_anchor_with_topology_list,
                   err>>

\* lines 122-137: the segment merge pass; line 137 empties the list of
\* Features only when the pass has not raised
SegmentMergePass ==
    /\ pc = "segment_merge"
    /\ LET r == SegmentMerge(hmc_json[f], street_section_ref_set)
       IN /\ hmc_json' = [hmc_json EXCEPT ![f] = r.obj]
          /\ street_section_ref_set' = r.street
          /\ IF r.err # "none"
             THEN Crash(r.err) /\ UNCHANGED segment_anchor_with_topology_list
             ELSE /\ pc' = "segment_anchors" /\ err' = err
                  /\ segment_anchor_with_topology_list' = <<>>
    /\ UNCHANGED <<download_vars, street_name_vars,
                   stdout, files, overwrite_result, fs, f,
                   segment_anchor_dict, node_anchor_dict,
                   node_anchor_with_topology_list, anchor_index>>

\* the loop pass with the Features put at the head of the list
SegmentAnchorPrepending ==
    /\ pc = "segment_anchors" /\ anchor_index < Len(hmc_json[f].segmentAnchor)
    /\ LET k == anchor_index
           r == SegmentAnchorStep(hmc_json[f].segmentAnchor[k + 1], k, node_anchor_dict)
       IN /\ anchor_index' = k + 1
          /\ hmc_json' = [hmc_json EXCEPT ![f].segmentAnchor[k + 1] = r.anchor]
          /\ segment_anchor_with_topology_list' =
                 r.built \o segment_anchor_with_topology_list
          /\ IF r.err # "none" THEN Crash(r.err) ELSE UNCHANGED <<pc, err>>
    /\ UNCHANGED <<download_vars, street_name_vars,
                   stdout, files, overwrite_result, fs, f,
                   segment_anchor_dict, node_anchor_dict, street_section_ref_set,
                   node_anchor_with_topology_list>>

\* lines 138-197: one pass of the loop over the segment anchors
SegmentAnchor ==
    /\ pc = "segment_anchors" /\ anchor_index < Len(hmc_json[f].segmentAnchor)
    /\ LET k == anchor_index
           r == SegmentAnchorStep(hmc_json[f].segmentAnchor[k + 1], k, node_anchor_dict)
       IN /\ anchor_index' = k + 1
          /\ hmc_json' = [hmc_json EXCEPT ![f].segmentAnchor[k + 1] = r.anchor]
          /\ segment_anchor_with_topology_list' =
                 segment_anchor_with_topology_list \o r.built
          /\ IF r.err # "none" THEN Crash(r.err) ELSE UNCHANGED <<pc, err>>
    /\ UNCHANGED <<download_vars, street_name_vars,
                   stdout, files, overwrite_result, fs, f,
                   segment_anchor_dict, node_anchor_dict, street_section_ref_set,
                   node_anchor_with_topology_list>>

\* lines 198-202: the segments FeatureCollection is written
SegmentWrite ==
    /\ pc = "segment_anchors" /\ anchor_index = Len(hmc_json[f].segmentAnchor)
    /\ fs' = [fs EXCEPT ![f].segments =
                WrittenFile([i \in 1..Len(segment_anchor_with_topology_list) |->
                    SegmentFeatureJSON(hmc_json[f], segment_anchor_with_topology_list[i])])]
    /\ pc' = "nodes"
    /\ UNCHANGED <<download_vars, street_name_vars,
                   stdout, files, overwrite_result, f, hmc_json,
                   segment_anchor_dict, node_anchor_dict, street_section_ref_set,
                   segment_anchor_with_topology_list, node_anchor_with_topology_list,
                   anchor_index, err>>

\* line 204: no node anchors
NodeNone ==
    /\ pc = "nodes" /\ hmc_json[f].nodeAnchor = <<>>
    /\ pc' = "street_names"
    /\ UNCHANGED <<download_vars, street_name_vars,
                   stdout, files, overwrite_result, fs, f, hmc_json,
                   segment_anchor_dict, node_anchor_dict, street_section_ref_set,
                   segment_anchor_with_topology_list, node_anchor_with_topology_list,
                   anchor_index, err>>

\* lines 205-209: the nodes file exists and is kept
NodeSkip ==
    /\ pc = "nodes" /\ hmc_json[f].nodeAnchor # <<>>
    /\ fs[f].nodes.exists /\ overwrite_result # "y"
    /\ node_anchor_dict' = f
    /\ pc' = "street_names"
    /\ stdout' = Append(stdout, Printed("nodes existing already", f))
    /\ UNCHANGED <<download_vars, street_name_vars,
                   files, overwrite_result, fs, f, hmc_json,
                   segment_anchor_dict, street_section_ref_set,
                   segment_anchor_with_topology_list, node_anchor_with_topology_list,
                   anchor_index, err>>

\* lines 205-222: the nodes file is opened for writing
NodeOpen ==
    /\ pc = "nodes" /\ hmc_json[f].nodeAnchor # <<>>
    /\ ~(fs[f].nodes.exists /\ overwrite_result # "y")
    /\ node_anchor_dict' = f
    /\ fs' = [fs EXCEPT ![f].nodes = EmptyFile]
    /\ anchor_index' = 0
    /\ pc' = "node_merge"
    /\ UNCHANGED <<download_vars, street_name_vars,
                   stdout, files, overwrite_result, f, hmc_json,
                   segment_anchor_dict, street_section_ref_set,
                   segment_anchor_with_topology_list, node_anchor_with_topology_list,
                   err>>

\* lines 224-231: the node merge pass; line 231 empties the list of
\* Features only when the pass has not raised
NodeMergePass ==
    /\ pc = "node_merge"
    /\ LET r == NodeMerge(hmc_json[f], street_section_ref_set)
       IN /\ hmc_json' = [hmc_json EXCEPT ![f] = r.obj]
          /\ street_section_ref_set' = r.street
          /\ IF r.err # "none"
             THEN Crash(r.err) /\ UNCHANGED node_anchor_with_topology_list
             ELSE /\ pc' = "node_anchors" /\ err' = err
                  /\ node_anchor_with_topology_list' = <<>>
    /\ UNCHANGED <<download_vars, street_name_vars,
                   stdout, files, overwrite_result, fs, f,
                   segment_anchor_dict, node_anchor_dict,
                   segment_anchor_with_topology_list, anchor_index>>

\* lines 232-254: one pass of the loop over the node anchors
NodeAnchor ==
    /\ pc = "node_anchors" /\ anchor_index < Len(hmc_json[f].nodeAnchor)
    /\ LET k == anchor_index
           r == NodeAnchorStep(hmc_json, hmc_json[f], hmc_json[f].nodeAnchor[k + 1], k,
                               segment_anchor_dict)
       IN /\ anchor_index' = k + 1
          /\ hmc_json' = [hmc_json EXCEPT ![f].nodeAnchor[k + 1] = r.anchor]
          /\ node_anchor_with_topology_list' = node_anchor_with_topology_list \o r.built
          /\ IF r.err # "none" THEN Crash(r.err) ELSE UNCHANGED <<pc, err>>
    /\ UNCHANGED <<download_vars, street_name_vars,
                   stdout, files, overwrite_result, fs, f,
                   segment_anchor_dict, node_anchor_dict, street_section_ref_set,
                   segment_anchor_with_topology_list>>

\* lines 255-261: the nodes FeatureCollection is written
NodeWrite ==
    /\ pc = "node_anchors" /\ anchor_index = Len(hmc_json[f].nodeAnchor)
    /\ fs' = [fs EXCEPT ![f].nodes =
                WrittenFile([i \in 1..Len(node_anchor_with_topology_list) |->
                    NodeFeatureJSON(hmc_json, hmc_json[f],
                                    node_anchor_with_topology_list[i])])]
    /\ pc' = "street_names"
    /\ UNCHANGED <<download_vars, street_name_vars,
                   stdout, files, overwrite_result, f, hmc_json,
                   segment_anchor_dict, node_anchor_dict, street_section_ref_set,
                   segment_anchor_with_topology_list, node_anchor_with_topology_list,
                   anchor_index, err>>

\* what partition_file_writer (hmc_downloader.py 144-227) can come to for a
\* file that does not exist yet: "created"; "decode_raises", DecodedMessage
\* (line 209) raises after the line of 198 is printed and before the file is
\* opened; "write_raises", the conversion of line 221 raises inside the with
\* block, which leaves the file opened at line 212 empty
WriterOutcomes == {"created", "decode_raises", "write_raises"}

\* partition_file_writer for the partition p in version ver, over the files
\* that exist: the lines printed, the files afterwards and the exception.
\* An existing file is skipped, whatever the library would do.
partition_file_writer(p, ver, existing, outcome) ==
    IF <<p, ver>> \in existing
    THEN [lines |-> <<Printed("skipped", p)>>, files |-> existing, err |-> "none"]
    ELSE IF outcome = "decode_raises"
    THEN [lines |-> <<Printed("layer", p)>>, files |-> existing, err |-> "RuntimeError"]
    ELSE IF outcome = "write_raises"
    THEN [lines |-> <<Printed("layer", p)>>, files |-> existing \cup {<<p, ver>>},
          err |-> "RuntimeError"]
    ELSE [lines |-> <<Printed("layer", p), Printed("created", p)>>,
          files |-> existing \cup {<<p, ver>>}, err |-> "none"]

\* what a call of the here.platform library can come to: it returns, or
\* raises (no credentials, no connection, no such layer); the model names
\* every such exception RuntimeError
LibraryOutcomes == {"returns", "raises"}

\* lines 262-274: when street-section partitions have been collected and
\* the file is of the address-attributes layer, they are announced and the
\* platform is asked for the catalog; Platform() (line 270) or get_status
\* and get_catalog (lines 273-274) can raise
StreetNames ==
    /\ pc = "street_names"
    /\ IF street_section_ref_set # {}
          /\ files[f].road_attribute_layer = "address-attributes"
       THEN LET announced == stdout \o <<Printed("street-name reference partitions", f),
                                          Printed("download street-name reference layers", f)>>
            IN \E platform, catalog \in LibraryOutcomes :
                  IF platform = "raises"
                  THEN /\ catalog = "raises"
                       /\ stdout' = announced
                       /\ Crash("RuntimeError")
                       /\ UNCHANGED street_names_left
                  ELSE /\ stdout' = Append(announced, Printed("HERE Platform Status", f))
                       /\ IF catalog = "raises"
                          THEN Crash("RuntimeError") /\ UNCHANGED street_names_left
                          ELSE /\ pc' = "street_name_downloads"
                               /\ street_names_left' = street_section_ref_set
                               /\ err' = err
       ELSE /\ pc' = "walk"
            /\ UNCHANGED <<stdout, street_names_left, err>>
    /\ UNCHANGED <<download_vars, decoded, files, overwrite_result, fs, f, hmc_json,
                   segment_anchor_dict, node_anchor_dict, street_section_ref_set,
                   segment_anchor_with_topology_list, node_anchor_with_topology_list,
                   anchor_index>>

\* lines 275-279 for one partition of list(street_section_ref_set), a set,
\* whose order Python does not fix: download_generic_layer (hmc_downloader.py
\* 298-307) asks the catalog for the partition in the version of the file
\* name; get_layer or read_partitions can raise, the catalog can have no
\* such partition, and a partition read is handed to partition_file_writer,
\* whose exception ends the script as well
StreetNameDownload ==
    /\ pc = "street_name_downloads"
    /\ \E street_name_partition \in street_names_left :
          LET ver == files[f].partition_version
          IN \E read \in LibraryOutcomes, found \in BOOLEAN, outcome \in WriterOutcomes :
                /\ street_names_left' = street_names_left \ {street_name_partition}
                /\ IF read = "raises"
                   THEN /\ found /\ outcome = "created"
                        /\ Crash("RuntimeError")
                        /\ UNCHANGED <<stdout, decoded>>
                   ELSE IF ~found
                   THEN /\ outcome = "created"
                        /\ UNCHANGED <<pc, err, stdout, decoded>>
                   ELSE LET w == partition_file_writer(street_name_partition, ver,
                                                       decoded, outcome)
                        IN /\ stdout' = stdout \o w.lines
                           /\ decoded' = w.files
                           /\ IF w.err # "none" THEN Crash(w.err)
                              ELSE UNCHANGED <<pc, err>>
    /\ UNCHANGED <<download_vars, files, overwrite_result, fs, f, hmc_json,
                   segment_anchor_dict, node_anchor_dict, street_section_ref_set,
                   segment_anchor_with_topology_list, node_anchor_with_topology_list,
                   anchor_index>>

\* the loop of line 275 is over: the walk goes on
StreetNamesDone ==
    /\ pc = "street_name_downloads" /\ street_names_left = {}
    /\ pc' = "walk"
    /\ UNCHANGED <<download_vars, street_name_vars, stdout, files, overwrite_result, fs,
                   f, hmc_json, segment_anchor_dict, node_anchor_dict,
                   street_section_ref_set, segment_anchor_with_topology_list,
                   node_anchor_with_topology_list, anchor_index, err>>

\* the walk is over
Finish ==
    /\ pc = "walk" /\ f = Len(files)
    /\ pc' = "done"
    /\ UNCHANGED <<download_vars, street_name_vars,
                   stdout, files, overwrite_result, fs, f, hmc_json,
                   segment_anchor_dict, node_anchor_dict, street_section_ref_set,
                   segment_anchor_with_topology_list, node_anchor_with_topology_list,
                   anchor_index, err>>

Next ==
    \/ Walk
    \/ SegmentNone
    \/ SegmentSkip
    \/ SegmentOpen
    \/ SegmentMergePass
    \/ SegmentAnchor
    \/ SegmentWrite
    \/ NodeNone
    \/ NodeSkip
    \/ NodeOpen
    \/ NodeMergePass
    \/ NodeAnchor
    \/ NodeWrite
    \/ StreetNames
    \/ StreetNameDownload
    \/ StreetNamesDone
    \/ Finish

Spec == Init /\ [][Next]_vars

\* ================================================ hmc_downloader.py
\* ---------------------------------------------------------------- bounds
MaxIds == 3        \* partition ids of one call
MaxWorkers == 2    \* max_workers of one call
MaxVersion == 1    \* versions of the catalog

\* ---------------------------------------------------------------- inputs
\* the lists of distinct partition ids: 1, 2, ... n
QuadIdLists == {[i \in 1..n |-> i] : n \in 0..MaxIds}

Versions == 1..MaxVersion

\* ------------------------------------------------------- the CLI download
\* get_cli_output_filepath: the path is made of the catalog, the tiling
\* scheme and the layer, which one call does not change, and of the
\* partition id and the version
get_cli_output_filepath(partition_id, ver) == <<partition_id, ver>>

\* the work item of a future: "unsubmitted", "pending" (in the work queue),
\* "taken" (a pool thread has taken it from the queue and has yet to run
\* the first line of download_one), "detect" (the thread runs
\* detect_partition_version), "cli" (the thread waits for the CLI process),
\* "ok" or "failed" (download_one has returned)
Task(state, ver) == [state |-> state, ver |-> ver]

\* lines 66-78: the folder is made, an existing file removed and the CLI
\* process started with its output redirected to the path
Popen(path) ==
    cli_downloads' = With(cli_downloads, path,
                          IF path \in DOMAIN cli_downloads THEN cli_downloads[path] + 1
                          ELSE 1)

\* the work items a pool thread holds
Running == {i \in 1..Len(futures) : futures[i].state \in {"taken", "detect", "cli"}}

\* line 37: detect_partition_version prints its command, which names the
\* partition, before it runs it
DetectLine(partition_id) == Printed("olp catalog layer partition list", partition_id)

\* a pool that starts a thread for every work item submitted
ThreadPerWorkItem == Len(quad_ids)

\* ThreadPoolExecutor(max_workers): the pool never has more threads, and a
\* thread runs one work item at a time
ThreadLimit == max_workers

\* the downloads in progress: those of the pool threads and that of the
\* calling thread
InProgress ==
    Cardinality(Running) + (IF sequential.state = "idle" THEN 0 ELSE 1)

\* ---------------------------------------------------------------- actions
\* the state when olp_cli_download_partition is called
InitDownload ==
    /\ Start(<<>>, "n", <<>>)
    /\ quad_ids \in QuadIdLists
    /\ max_workers \in 1..MaxWorkers
    /\ version \in {<<>>} \cup {<<v>> : v \in Versions}
    /\ catalog_version \in Versions
    /\ call = "submit"
    /\ partition_index = 0
    /\ futures = [i \in 1..Len(quad_ids) |-> Task("unsubmitted", 0)]
    /\ sequential = [state |-> "idle", ver |-> 0]
    /\ cli_downloads = EmptyMap
    /\ NoLayerCall

\* lines 272-273: executor.submit(download_one, pid)
Submit ==
    /\ call = "submit" /\ partition_index < Len(quad_ids)
    /\ partition_index' = partition_index + 1
    /\ futures' = [futures EXCEPT ![partition_index + 1].state = "pending"]
    /\ UNCHANGED <<script_vars, layer_vars, stdout, quad_ids, max_workers, version,
                   catalog_version, call, sequential, cli_downloads>>

\* line 275: every id is submitted; the calling thread waits for the futures
Submitted ==
    /\ call = "submit" /\ partition_index = Len(quad_ids)
    /\ call' = "as_completed"
    /\ UNCHANGED <<script_vars, layer_vars, stdout, quad_ids, max_workers, version,
                   catalog_version, partition_index, futures, sequential,
                   cli_downloads>>

\* a pool thread takes the first work item of the queue; the pool has at
\* most ThreadLimit threads and a thread holds one work item at a time
Take(i) ==
    /\ futures[i].state = "pending"
    /\ \A j \in 1..(i - 1) : futures[j].state # "pending"
    /\ Cardinality(Running) < ThreadLimit
    /\ futures' = [futures EXCEPT ![i].state = "taken"]
    /\ UNCHANGED <<script_vars, layer_vars, stdout, quad_ids, max_workers, version,
                   catalog_version, call, partition_index, sequential, cli_downloads>>

\* the thread enters download_one (lines 250-265): with a version given it
\* starts the CLI process, without one it starts detect_partition_version,
\* which prints its command; the threads that hold other work items run
\* meanwhile, in any order
Work(i) ==
    /\ futures[i].state = "taken"
    /\ IF version = <<>>
       THEN /\ futures' = [futures EXCEPT ![i].state = "detect"]
            /\ stdout' = Append(stdout, DetectLine(quad_ids[i]))
            /\ UNCHANGED cli_downloads
       ELSE /\ futures' = [futures EXCEPT ![i] = Task("cli", version[1])]
            /\ Popen(get_cli_output_filepath(quad_ids[i], version[1]))
            /\ UNCHANGED stdout
    /\ UNCHANGED <<script_vars, layer_vars, quad_ids, max_workers, version,
                   catalog_version, call, partition_index, sequential>>

\* lines 252, 256-265: detect_partition_version returns a version and the
\* CLI process is started
Detected(i) ==
    /\ futures[i].state = "detect"
    /\ LET ver == catalog_version
       IN /\ futures' = [futures EXCEPT ![i] = Task("cli", ver)]
          /\ Popen(get_cli_output_filepath(quad_ids[i], ver))
    /\ UNCHANGED <<script_vars, layer_vars, stdout, quad_ids, max_workers, version,
                   catalog_version, call, partition_index, sequential>>

\* lines 252, 266-267: detect_partition_version raises; download_one
\* catches the exception and prints it
DetectFailed(i) ==
    /\ futures[i].state = "detect"
    /\ futures' = [futures EXCEPT ![i].state = "failed"]
    /\ stdout' = Append(stdout, Printed("Partition failed", quad_ids[i]))
    /\ UNCHANGED <<script_vars, layer_vars, quad_ids, max_workers, version, catalog_version, call,
                   partition_index, sequential, cli_downloads>>

\* lines 79-83: the CLI process ends with return code 0
Downloaded(i) ==
    /\ futures[i].state = "cli"
    /\ futures' = [futures EXCEPT ![i].state = "ok"]
    /\ stdout' = Append(stdout, Printed("Download Completed", quad_ids[i]))
    /\ UNCHANGED <<script_vars, layer_vars, quad_ids, max_workers, version, catalog_version, call,
                   partition_index, sequential, cli_downloads>>

\* lines 79-81, 266-267: the CLI process ends with another return code;
\* download_partition raises, download_one catches and prints
DownloadFailed(i) ==
    /\ futures[i].state = "cli"
    /\ futures' = [futures EXCEPT ![i].state = "failed"]
    /\ stdout' = Append(stdout, Printed("Partition failed", quad_ids[i]))
    /\ UNCHANGED <<script_vars, layer_vars, quad_ids, max_workers, version, catalog_version, call,
                   partition_index, sequential, cli_downloads>>

\* lines 275-279 and the end of the with block: every future has completed
\* (future.result() never raises, download_one returns None) and the pool
\* is shut down; the loop of lines 281-296 begins
PoolDone ==
    /\ call = "as_completed"
    /\ \A i \in 1..Len(futures) : futures[i].state \in {"ok", "failed"}
    /\ call' = "sequential"
    /\ partition_index' = 0
    /\ UNCHANGED <<script_vars, layer_vars, stdout, quad_ids, max_workers, version,
                   catalog_version, futures, sequential, cli_downloads>>

\* lines 281-296: the calling thread starts on the next id; without a
\* version it starts detect_partition_version, which prints its command
SequentialNext ==
    /\ call = "sequential" /\ sequential.state = "idle"
    /\ partition_index < Len(quad_ids)
    /\ IF version = <<>>
       THEN /\ sequential' = [state |-> "detect", ver |-> 0]
            /\ stdout' = Append(stdout, DetectLine(quad_ids[partition_index + 1]))
            /\ UNCHANGED cli_downloads
       ELSE /\ sequential' = [state |-> "cli", ver |-> version[1]]
            /\ Popen(get_cli_output_filepath(quad_ids[partition_index + 1], version[1]))
            /\ UNCHANGED stdout
    /\ UNCHANGED <<script_vars, layer_vars, quad_ids, max_workers, version,
                   catalog_version, call, partition_index, futures>>

\* lines 283, 287-296
SequentialDetected ==
    /\ call = "sequential" /\ sequential.state = "detect"
    /\ LET ver == catalog_version
       IN /\ sequential' = [state |-> "cli", ver |-> ver]
          /\ Popen(get_cli_output_filepath(quad_ids[partition_index + 1], ver))
    /\ UNCHANGED <<script_vars, layer_vars, stdout, quad_ids, max_workers, version,
                   catalog_version, call, partition_index, futures>>

\* line 283: detect_partition_version raises and nothing catches it
SequentialDetectFailed ==
    /\ call = "sequential" /\ sequential.state = "detect"
    /\ sequential' = [state |-> "idle", ver |-> 0]
    /\ call' = "raised"
    /\ UNCHANGED <<script_vars, layer_vars, stdout, quad_ids, max_workers, version,
                   catalog_version, partition_index, futures, cli_downloads>>

\* lines 79-83: return code 0; the loop goes on
SequentialDownloaded ==
    /\ call = "sequential" /\ sequential.state = "cli"
    /\ sequential' = [state |-> "idle", ver |-> 0]
    /\ partition_index' = partition_index + 1
    /\ stdout' = Append(stdout, Printed("Download Completed", quad_ids[partition_index + 1]))
    /\ UNCHANGED <<script_vars, layer_vars, quad_ids, max_workers, version, catalog_version, call,
                   futures, cli_downloads>>

\* lines 79-81: another return code; the RuntimeError leaves the call
SequentialDownloadFailed ==
    /\ call = "sequential" /\ sequential.state = "cli"
    /\ sequential' = [state |-> "idle", ver |-> 0]
    /\ call' = "raised"
    /\ UNCHANGED <<script_vars, layer_vars, stdout, quad_ids, max_workers, version,
                   catalog_version, partition_index, futures, cli_downloads>>

\* the loop is over and the call returns
Return ==
    /\ call = "sequential" /\ sequential.state = "idle"
    /\ partition_index = Len(quad_ids)
    /\ call' = "returned"
    /\ UNCHANGED <<script_vars, layer_vars, stdout, quad_ids, max_workers, version,
                   catalog_version, partition_index, futures, sequential,
                   cli_downloads>>

NextDownload ==
    \/ Submit
    \/ Submitted
    \/ \E i \in 1..Len(futures) : Take(i)
    \/ \E i \in 1..Len(futures) : Work(i)
    \/ \E i \in 1..Len(futures) : Detected(i)
    \/ \E i \in 1..Len(futures) : DetectFailed(i)
    \/ \E i \in 1..Len(futures) : Downloaded(i)
    \/ \E i \in 1..Len(futures) : DownloadFailed(i)
    \/ PoolDone
    \/ SequentialNext
    \/ SequentialDetected
    \/ SequentialDetectFailed
    \/ SequentialDownloaded
    \/ SequentialDownloadFailed
    \/ Return

SpecDownload == InitDownload /\ [][NextDownload]_vars

\* ------------------- download_partition and download_partitioned_layer
\* the methods a caller can name: the two the function knows and another
Methods == {"sdk", "cli", "ftp"}

\* the sublists of ids: the partitions read_partitions finds, in the order
\* asked
RECURSIVE SubSeqs(_)
SubSeqs(ids) ==
    IF ids = <<>> THEN {<<>>}
    ELSE LET rest == SubSeqs(Tail(ids))
         IN rest \cup {<<Head(ids)>> \o s : s \in rest}

\* the version of a partition the catalog hands out: the one asked for, or
\* the catalog's when none is asked for
VersionRead == IF version = <<>> THEN catalog_version ELSE version[1]

\* the state when one of the functions is called: download_partition for
\* one partition id with a method, download_partitioned_layer for a list of
\* ids, or one of the two get_country functions for a tuple of country
\* codes; no file of an earlier call exists
InitLayer ==
    /\ Start(<<>>, "n", <<>>)
    /\ max_workers = 1
    /\ version \in {<<>>} \cup {<<v>> : v \in Versions}
    /\ catalog_version \in Versions
    /\ partition_index = 0
    /\ futures = <<>>
    /\ sequential = [state |-> "idle", ver |-> 0]
    /\ cli_downloads = EmptyMap
    /\ partitions = <<>>
    /\ partition_data = <<>>
    /\ sdk_files = {}
    /\ results = <<>>
    /\ \/ /\ call = "download_partition"
          /\ quad_ids = <<1>>
          /\ method \in Methods
          /\ write_to_file = TRUE
       \/ /\ call = "download_partitioned_layer"
          /\ quad_ids \in QuadIdLists
          /\ method = "cli"
          /\ write_to_file \in BOOLEAN
       \/ /\ call \in {"get_country_tile_indexes", "get_country_admin_indexes"}
          /\ quad_ids \in QuadIdLists
          /\ method = "cli"
          /\ write_to_file = TRUE

\* what the sdk branch of download_partition (lines 56-64) can come to: a
\* library call raises (57, 58, 60); the catalog has no such partition and
\* the subscript of line 59 raises; the folder of the file is missing and
\* open raises (62); the file is written
SdkOutcomes == {"raises", "no_partition", "no_folder", "written"}

\* lines 56-64: download_partition(method='sdk')
DownloadPartitionSdk ==
    /\ call = "download_partition" /\ method = "sdk"
    /\ \E outcome \in SdkOutcomes :
          IF outcome = "written"
          THEN /\ sdk_files' = sdk_files \cup {quad_ids[1]}
               /\ stdout' = Append(stdout, Printed("Download completed", quad_ids[1]))
               /\ call' = "returned"
               /\ err' = err
          ELSE /\ call' = "raised"
               /\ err' = IF outcome = "raises" THEN "RuntimeError"
                         ELSE IF outcome = "no_partition" THEN "IndexError"
                         ELSE "FileNotFoundError"
               /\ UNCHANGED <<sdk_files, stdout>>
    /\ UNCHANGED <<files, overwrite_result, fs, f, pc, hmc_json, segment_anchor_dict,
                   node_anchor_dict, street_section_ref_set,
                   segment_anchor_with_topology_list, node_anchor_with_topology_list,
                   anchor_index, street_name_vars, quad_ids, max_workers, version,
                   catalog_version, partition_index, futures, sequential, cli_downloads,
                   method, write_to_file, partitions, partition_data, results>>

\* lines 65-78: download_partition(method='cli') starts the CLI process on
\* the path it is given, here the path get_cli_output_filepath makes
DownloadPartitionCli ==
    /\ call = "download_partition" /\ method = "cli"
    /\ call' = "wait"
    /\ Popen(get_cli_output_filepath(quad_ids[1], VersionRead))
    /\ UNCHANGED <<script_vars, layer_vars, stdout, quad_ids, max_workers, version,
                   catalog_version, partition_index, futures, sequential>>

\* lines 79-83: the CLI process ends: with return code 0 the function
\* prints and returns, with another it raises
DownloadPartitionWaited ==
    /\ call = "wait"
    /\ \E return_code \in {0, 1} :
          IF return_code = 0
          THEN /\ stdout' = Append(stdout, Printed("Download Completed", quad_ids[1]))
               /\ call' = "returned"
               /\ err' = err
          ELSE /\ call' = "raised"
               /\ err' = "RuntimeError"
               /\ UNCHANGED stdout
    /\ UNCHANGED <<files, overwrite_result, fs, f, pc, hmc_json, segment_anchor_dict,
                   node_anchor_dict, street_section_ref_set,
                   segment_anchor_with_topology_list, node_anchor_with_topology_list,
                   anchor_index, street_name_vars, layer_vars, quad_ids, max_workers,
                   version, catalog_version, partition_index, futures, sequential,
                   cli_downloads>>

\* lines 84-85: a method the function does not know
DownloadPartitionUnknown ==
    /\ call = "download_partition" /\ method \notin {"sdk", "cli"}
    /\ call' = "raised"
    /\ err' = "ValueError"
    /\ UNCHANGED <<files, overwrite_result, fs, f, pc, hmc_json, segment_anchor_dict,
                   node_anchor_dict, street_section_ref_set,
                   segment_anchor_with_topology_list, node_anchor_with_topology_list,
                   anchor_index, street_name_vars, layer_vars, stdout, quad_ids,
                   max_workers, version, catalog_version, partition_index, futures,
                   sequential, cli_downloads>>

\* lines 330-341: download_partitioned_layer reads the partitions of the ids
\* (get_layer or read_partitions can raise) and, unless they are to be
\* written, stores them
PartitionedRead ==
    /\ call = "download_partitioned_layer"
    /\ \E read \in LibraryOutcomes, found \in SubSeqs(quad_ids) :
          IF read = "raises"
          THEN /\ found = <<>>
               /\ call' = "raised"
               /\ err' = "RuntimeError"
               /\ UNCHANGED <<partitions, partition_data>>
          ELSE /\ err' = err
               /\ IF write_to_file
                  THEN /\ partitions' = found
                       /\ call' = "writing"
                       /\ UNCHANGED partition_data
                  ELSE /\ partition_data' = <<found>>
                       /\ call' = "returned"
                       /\ UNCHANGED partitions
    /\ UNCHANGED <<files, overwrite_result, fs, f, pc, hmc_json, segment_anchor_dict,
                   node_anchor_dict, street_section_ref_set,
                   segment_anchor_with_topology_list, node_anchor_with_topology_list,
                   anchor_index, street_name_vars, stdout, quad_ids, max_workers,
                   version, catalog_version, partition_index, futures, sequential,
                   cli_downloads, method, write_to_file, sdk_files, results>>

\* lines 338-339: one pass of the loop over the partitions read
PartitionedWrite ==
    /\ call = "writing" /\ partitions # <<>>
    /\ \E outcome \in WriterOutcomes :
          LET w == partition_file_writer(Head(partitions), VersionRead, decoded, outcome)
          IN /\ stdout' = stdout \o w.lines
             /\ decoded' = w.files
             /\ partitions' = Tail(partitions)
             /\ IF w.err # "none" THEN call' = "raised" /\ err' = w.err
                ELSE UNCHANGED <<call, err>>
    /\ UNCHANGED <<files, overwrite_result, fs, f, pc, hmc_json, segment_anchor_dict,
                   node_anchor_dict, street_section_ref_set,
                   segment_anchor_with_topology_list, node_anchor_with_topology_list,
                   anchor_index, street_names_left, quad_ids, max_workers, version,
                   catalog_version, partition_index, futures, sequential, cli_downloads,
                   method, write_to_file, partition_data, sdk_files, results>>

\* line 342: the loop is over and the function returns
PartitionedDone ==
    /\ call = "writing" /\ partitions = <<>>
    /\ call' = "returned"
    /\ UNCHANGED <<script_vars, layer_vars, stdout, quad_ids, max_workers, version,
                   catalog_version, partition_index, futures, sequential,
                   cli_downloads>>

\* ------------- get_country_tile_indexes and get_country_admin_indexes
\* what the decoded JSON of the country partition p can be. A key of the
\* JSON is <<>> when the JSON has no such key and <<v>> when its value is v.
\* The partition has two tile ids; a list of tile indexes holds indexes of
\* the two, counted from the front or from the back, or one past their end.
CountryContents(p) ==
    LET Key(values) == {<<>>} \cup {<<v>> : v \in values}
        IndexLists == {<<0>>, <<-1, 1>>, <<2>>}
        Locations == [tileIndex : Key(IndexLists), boundaryTileIndex : Key(IndexLists)]
    IN [partitionName : Key({p}),
        tileId : Key({<<10, 20>>}),
        indexedLocation : Key({<<>>} \cup {<<l>> : l \in Locations})]

\* lines 380-416: what the loop body makes of the decoded JSON of one
\* partition: the exception it ends in and, without one, the JSON it prints,
\* in which every indexed location has lost its two lists of tile indexes
\* and has the two lists of tile ids in their place
AdminIndexes(json) ==
    IF json.tileId = <<>> \/ json.indexedLocation = <<>>
    THEN [err |-> "KeyError", json |-> json]
    ELSE LET tile_id_list == json.tileId[1]
             indexed_location_list == json.indexedLocation[1]
             \* lines 405, 412: tile_id_list[index] for every index of a
             \* list, Python's negative subscripts included
             TileIds(indexes) ==
                 [i \in 1..Len(indexes) |->
                     tile_id_list[PyIndexPos(Len(tile_id_list), indexes[i])]]
             OutOfRange(indexes) ==
                 \E i \in 1..Len(indexes) : ~PyIndexValid(Len(tile_id_list), indexes[i])
             \* lines 385-413: the exception one indexed location ends in
             LocationError(indexed_location) ==
                 IF \/ indexed_location.tileIndex = <<>>
                    \/ indexed_location.boundaryTileIndex = <<>>
                 THEN "KeyError"
                 ELSE IF \/ OutOfRange(indexed_location.tileIndex[1])
                         \/ OutOfRange(indexed_location.boundaryTileIndex[1])
                 THEN "IndexError"
                 ELSE "none"
             IndexedLocation(indexed_location) ==
                 [partitionIdList |-> TileIds(indexed_location.tileIndex[1]),
                  boundaryPartitionIdList |->
                      TileIds(indexed_location.boundaryTileIndex[1])]
             failing == {i \in 1..Len(indexed_location_list) :
                            LocationError(indexed_location_list[i]) # "none"}
         IN IF failing # {}
            THEN [err |-> LocationError(
                              indexed_location_list[CHOOSE i \in failing :
                                                        \A j \in failing : i <= j]),
                  json |-> json]
            ELSE [err |-> "none",
                  json |-> [json EXCEPT !.indexedLocation =
                               <<[i \in 1..Len(indexed_location_list) |->
                                     IndexedLocation(indexed_location_list[i])]>>]]

\* lines 346-352: get_country_tile_indexes reads the partitions of the
\* country codes (get_layer or read_partitions can raise); with none found
\* the loop has no pass and the function returns the empty results (line 363)
CountryTileRead ==
    /\ call = "get_country_tile_indexes"
    /\ \E read \in LibraryOutcomes, found \in SubSeqs(quad_ids) :
          IF read = "raises"
          THEN /\ found = <<>>
               /\ call' = "raised"
               /\ err' = "RuntimeError"
               /\ UNCHANGED <<partitions, results>>
          ELSE /\ partitions' = found
               /\ results' = <<>>
               /\ call' = IF found = <<>> THEN "returned" ELSE "tile_indexes"
               /\ err' = err
    /\ UNCHANGED <<files, overwrite_result, fs, f, pc, hmc_json, segment_anchor_dict,
                   node_anchor_dict, street_section_ref_set,
                   segment_anchor_with_topology_list, node_anchor_with_topology_list,
                   anchor_index, street_name_vars, stdout, quad_ids, max_workers,
                   version, catalog_version, partition_index, futures, sequential,
                   cli_downloads, method, write_to_file, partition_data, sdk_files>>

\* lines 353-363: one pass of the loop: the content is decoded (which can
\* raise) and the tile ids appended to the results under the partition's
\* name (a JSON without one of the two keys raises); after the last pass the
\* function returns the results
CountryTileIndex ==
    /\ call = "tile_indexes" /\ partitions # <<>>
    /\ \E decode \in LibraryOutcomes,
          decoded_content_json \in CountryContents(Head(partitions)) :
          IF decode = "raises"
          THEN /\ call' = "raised"
               /\ err' = "RuntimeError"
               /\ UNCHANGED <<partitions, results>>
          ELSE IF \/ decoded_content_json.partitionName = <<>>
                  \/ decoded_content_json.tileId = <<>>
          THEN /\ call' = "raised"
               /\ err' = "KeyError"
               /\ UNCHANGED <<partitions, results>>
          ELSE /\ results' = Append(results,
                                    [key |-> decoded_content_json.partitionName[1],
                                     value |-> decoded_content_json.tileId[1]])
               /\ partitions' = Tail(partitions)
               /\ call' = IF Tail(partitions) = <<>> THEN "returned" ELSE call
               /\ err' = err
    /\ UNCHANGED <<files, overwrite_result, fs, f, pc, hmc_json, segment_anchor_dict,
                   node_anchor_dict, street_section_ref_set,
                   segment_anchor_with_topology_list, node_anchor_with_topology_list,
                   anchor_index, street_name_vars, stdout, quad_ids, max_workers,
                   version, catalog_version, partition_index, futures, sequential,
                   cli_downloads, method, write_to_file, partition_data, sdk_files>>

\* lines 366-372: get_country_admin_indexes reads the partitions of the
\* country codes (get_layer or read_partitions can raise); with none found
\* the loop has no pass and the function returns the empty results (line 418)
CountryAdminRead ==
    /\ call = "get_country_admin_indexes"
    /\ \E read \in LibraryOutcomes, found \in SubSeqs(quad_ids) :
          IF read = "raises"
          THEN /\ found = <<>>
               /\ call' = "raised"
               /\ err' = "RuntimeError"
               /\ UNCHANGED <<partitions, results>>
          ELSE /\ partitions' = found
               /\ results' = <<>>
               /\ call' = IF found = <<>> THEN "returned" ELSE "admin_indexes"
               /\ err' = err
    /\ UNCHANGED <<files, overwrite_result, fs, f, pc, hmc_json, segment_anchor_dict,
                   node_anchor_dict, street_section_ref_set,
                   segment_anchor_with_topology_list, node_anchor_with_topology_list,
                   anchor_index, street_name_vars, stdout, quad_ids, max_workers,
                   version, catalog_version, partition_index, futures, sequential,
                   cli_downloads, method, write_to_file, partition_data, sdk_files>>

\* lines 373-418: one pass of the loop: the content is decoded (which can
\* raise), the tile indexes of its locations are replaced by tile ids (a
\* missing key or an index out of range raises) and the JSON is printed;
\* nothing is appended to the results, and after the last pass the function
\* returns them, the empty list of line 372
CountryAdminIndex ==
    /\ call = "admin_indexes" /\ partitions # <<>>
    /\ \E decode \in LibraryOutcomes, json \in CountryContents(Head(partitions)) :
          LET r == AdminIndexes(json)
          IN IF decode = "raises"
             THEN /\ call' = "raised"
                  /\ err' = "RuntimeError"
                  /\ UNCHANGED <<partitions, stdout>>
             ELSE IF r.err # "none"
             THEN /\ call' = "raised"
                  /\ err' = r.err
                  /\ UNCHANGED <<partitions, stdout>>
             ELSE /\ stdout' = Append(stdout, [msg |-> "hmc_json",
                                              part |-> Head(partitions),
                                              json |-> r.json])
                  /\ partitions' = Tail(partitions)
                  /\ call' = IF Tail(partitions) = <<>> THEN "returned" ELSE call
                  /\ err' = err
    /\ UNCHANGED <<files, overwrite_result, fs, f, pc, hmc_json, segment_anchor_dict,
                   node_anchor_dict, street_section_ref_set,
                   segment_anchor_with_topology_list, node_anchor_with_topology_list,
                   anchor_index, street_name_vars, quad_ids, max_workers, version,
                   catalog_version, partition_index, futures, sequential, cli_downloads,
                   method, write_to_file, partition_data, sdk_files, results>>

NextLayer ==
    \/ DownloadPartitionSdk
    \/ DownloadPartitionCli
    \/ DownloadPartitionWaited
    \/ DownloadPartitionUnknown
    \/ PartitionedRead
    \/ PartitionedWrite
    \/ PartitionedDone
    \/ CountryTileRead
    \/ CountryTileIndex
    \/ CountryAdminRead
    \/ CountryAdminIndex

SpecLayer == InitLayer /\ [][NextLayer]_vars

\* ================================================================== claims
\* ------------------------------------------------- vocabulary of the claims
\* the index fields a record of the file carries
IndexFieldsOf(rec) == DOMAIN rec \cap IndexNames

\* the merge pass for the anchors index field nm attaches to has completed
\* for the partition being processed
MergedFor(nm) ==
    IF nm = "nodeAnchorIndex" THEN pc = "node_anchors" ELSE pc = "segment_anchors"

\* anchor a (0-based) of the kind nm attaches to holds record under key
StoredAt(nm, a, key, record) ==
    LET an == hmc_json[f][AnchorKind(nm)][a + 1]
    IN /\ an.hasProps
       /\ key \in DOMAIN an.properties
       /\ hmc_json[f].coll[key][an.properties[key]] = record

\* number of anchors of the kind nm attaches to, in the file being processed
AnchorCount(nm) == Len(files[f][AnchorKind(nm)])

\* no record after record j of the collection also names anchor a
\* (last-write-wins is the documented outcome of such a collision)
NotOverwritten(key, j, nm, a) ==
    \A j2 \in (j + 1)..Len(files[f].coll[key]) :
        LET later == files[f].coll[key][j2]
        IN nm \in DOMAIN later =>
              \A x \in Range(later[nm].v) :
                  PyIndexValid(AnchorCount(nm), x) => PyIndexPos(AnchorCount(nm), x) # a + 1

\* the records the merge claims speak of: record j of collection key
\* carries exactly the index field nm and more than the index field
MergeCase(key, j, nm) ==
    /\ pc \in {"segment_anchors", "node_anchors"}
    /\ key \in Range(files[f].keys)
    /\ j \in 1..Len(files[f].coll[key])
    /\ IndexFieldsOf(files[f].coll[key][j]) = {nm}
    /\ DOMAIN files[f].coll[key][j] # {nm}
    /\ MergedFor(nm)

MergeCases ==
    IF pc \in {"segment_anchors", "node_anchors"}
    THEN {c \in Range(files[f].keys) \X (1..MaxRecs) \X IndexNames :
            MergeCase(c[1], c[2], c[3])}
    ELSE {}

ValidPositions(nm) == 0..(AnchorCount(nm) - 1)

\* the residual of record j of collection key is in the properties of
\* exactly the anchors of positions, those a later record claims excepted
AttachedExactlyTo(key, j, nm, positions) ==
    LET residual == Without(files[f].coll[key][j], nm)
    IN \A a \in ValidPositions(nm) :
          IF a \in positions
          THEN NotOverwritten(key, j, nm, a) => StoredAt(nm, a, key, residual)
          ELSE ~StoredAt(nm, a, key, residual)

\* the pass found the index field of the collection
Sniffed(key, nm) ==
    IF nm = "nodeAnchorIndex" THEN NodeIndexName(files[f].coll[key]) = nm
    ELSE SegmentIndexName(files[f].coll[key][1]) = nm

\* C1: after the merge pass, the residual of every record whose index field
\* holds a single valid position i (0 included) is stored under the
\* collection name in anchor i of the matching kind and in no other anchor.
C1_ScalarIndexAttached ==
    \A c \in MergeCases :
        LET iv == files[f].coll[c[1]][c[2]][c[3]]
        IN (iv.kind = "int" /\ iv.v[1] \in ValidPositions(c[3]))
           => AttachedExactlyTo(c[1], c[2], c[3], {iv.v[1]})

\* C1 where the pass finds the index field: it holds there, so the failures
\* of C1 are the collections the truth test of lines 127-133 and 229 skips
C1_ScalarIndexAttachedWhenSniffed ==
    \A c \in MergeCases :
        LET iv == files[f].coll[c[1]][c[2]][c[3]]
        IN (iv.kind = "int" /\ iv.v[1] \in ValidPositions(c[3]) /\ Sniffed(c[1], c[3]))
           => AttachedExactlyTo(c[1], c[2], c[3], {iv.v[1]})

\* C2: after the merge pass, the residual of every record whose index field
\* holds a list of valid positions is in the properties of every anchor of
\* the list and of no anchor outside it.
C2_ListIndexFanOut ==
    \A c \in MergeCases :
        LET iv == files[f].coll[c[1]][c[2]][c[3]]
        IN (iv.kind = "list" /\ Range(iv.v) \subseteq ValidPositions(c[3]))
           => AttachedExactlyTo(c[1], c[2], c[3], Range(iv.v))

C2_ListIndexFanOutWhenSniffed ==
    \A c \in MergeCases :
        LET iv == files[f].coll[c[1]][c[2]][c[3]]
        IN (iv.kind = "list" /\ Range(iv.v) \subseteq ValidPositions(c[3])
            /\ Sniffed(c[1], c[3]))
           => AttachedExactlyTo(c[1], c[2], c[3], Range(iv.v))

\* the records of the partition being processed that carry exactly the
\* index field nm and more than the index field
RecordCases ==
    IF f = 0 THEN {}
    ELSE {c \in Range(files[f].keys) \X (1..MaxRecs) \X IndexNames :
            /\ c[2] \in 1..Len(files[f].coll[c[1]])
            /\ IndexFieldsOf(files[f].coll[c[1]][c[2]]) = {c[3]}
            /\ DOMAIN files[f].coll[c[1]][c[2]] # {c[3]}}

\* C3: when the index value of a record is not a valid position of its
\* anchor collection (too large or negative), the merge pass does not
\* complete: it raises, and the record is attached to no anchor.
C3_MalformedIndexFatal ==
    \A c \in RecordCases :
        LET rec == files[f].coll[c[1]][c[2]]
        IN (\E x \in Range(rec[c[3]].v) : x \notin ValidPositions(c[3]))
           => /\ ~MergedFor(c[3])
              /\ pc # "crashed" =>
                    \A a \in ValidPositions(c[3]) :
                        ~StoredAt(c[3], a, c[1], Without(rec, c[3]))

\* C3 for positions past the end, where the pass finds the index field:
\* the subscript raises IndexError; the failures of C3 are the negative
\* positions, which Python counts from the end, and the skipped collections
C3_TooLargeIndexFatalWhenSniffed ==
    \A c \in RecordCases :
        LET rec == files[f].coll[c[1]][c[2]]
        IN (/\ Sniffed(c[1], c[3])
            /\ \A j \in 1..Len(files[f].coll[c[1]]) :
                  c[3] \in DOMAIN files[f].coll[c[1]][j] =>
                      \A x \in Range(files[f].coll[c[1]][j][c[3]].v) : x >= 0
            /\ \E x \in Range(rec[c[3]].v) : x >= AnchorCount(c[3]))
           => /\ ~MergedFor(c[3])
              /\ pc # "crashed" =>
                    \A a \in ValidPositions(c[3]) :
                        ~StoredAt(c[3], a, c[1], Without(rec, c[3]))

\* the partitions whose output file of kind holds a FeatureCollection
Written(kind) == {p \in 1..Len(hmc_json) : fs[p][kind].text = "collection"}

\* the members of indices that are positions of a list of n anchors
RECURSIVE Existing(_, _)
Existing(indices, n) ==
    IF indices = <<>> THEN <<>>
    ELSE IF Head(indices) \in 0..(n - 1)
         THEN <<Head(indices)>> \o Existing(Tail(indices), n)
         ELSE Existing(Tail(indices), n)

\* the property map of a segment anchor of partition p (empty before any
\* merge pass gave it one)
PropertyMapOf(p, a) ==
    LET an == hmc_json[p].segmentAnchor[a + 1]
    IN IF an.hasProps THEN PropsJSON(hmc_json[p], an.properties) ELSE EmptyMap

\* C4: for every emitted node anchor with a property record containing
\* segmentAnchorIndex, resolvedSegmentAnchors is the list, in index order,
\* of the property maps of the segment anchors of the partition at the
\* indices that exist; missing indices are omitted and raise no error.
C4_NodeCrossReferencePropertyMaps ==
    /\ \A p \in Written("nodes") :
          \A i \in 1..Len(fs[p].nodes.features) :
              LET pm == fs[p].nodes.features[i].properties
              IN \A name \in DOMAIN pm \ {"resolvedSegmentAnchors"} :
                    "segmentAnchorIndex" \in DOMAIN pm[name] =>
                        LET found == Existing(pm[name].segmentAnchorIndex.v,
                                              Len(files[p].segmentAnchor))
                        IN /\ "resolvedSegmentAnchors" \in DOMAIN pm
                           /\ pm.resolvedSegmentAnchors =
                                 [x \in 1..Len(found) |-> PropertyMapOf(p, found[x])]
    /\ ~(pc = "crashed" /\ err = "NameError")

\* C4 with the anchor dicts in place of their property maps, for partitions
\* that have segment anchors and property maps in which one record contains
\* segmentAnchorIndex: this is what the script stores
C4_NodeCrossReferenceAnchorDicts ==
    \A p \in Written("nodes") :
        \A i \in 1..Len(fs[p].nodes.features) :
            LET pm == fs[p].nodes.features[i].properties
            IN \A name \in DOMAIN pm \ {"resolvedSegmentAnchors"} :
                  (/\ "segmentAnchorIndex" \in DOMAIN pm[name]
                   /\ \A other \in DOMAIN pm \ {"resolvedSegmentAnchors", name} :
                         "segmentAnchorIndex" \notin DOMAIN pm[other]
                   /\ files[p].segmentAnchor # <<>>) =>
                      LET found == Existing(pm[name].segmentAnchorIndex.v,
                                            Len(files[p].segmentAnchor))
                      IN /\ "resolvedSegmentAnchors" \in DOMAIN pm
                         /\ pm.resolvedSegmentAnchors =
                               [x \in 1..Len(found) |->
                                   SegAnchorJSON(hmc_json[p],
                                       hmc_json[p].segmentAnchor[found[x] + 1])]

\* holder carries a resolvedNodeAnchors list of n entries
HoldsResolvedNodes(holder, n) ==
    /\ "resolvedNodeAnchors" \in DOMAIN holder
    /\ Len(holder.resolvedNodeAnchors) = n

\* C5: for every emitted segment anchor and every record of its property
\* map that contains nodeAnchorIndex, the node anchors of the partition at
\* those indices are stored as resolvedNodeAnchors (on the Feature's
\* properties, on the property map or on the record), in the first
\* partition of a run as in later ones.
C5_SegmentCrossReference ==
    \A p \in Written("segments") :
        \A i \in 1..Len(fs[p].segments.features) :
            LET an == fs[p].segments.features[i].properties
            IN "properties" \in DOMAIN an =>
                  \A name \in DOMAIN an.properties :
                      "nodeAnchorIndex" \in DOMAIN an.properties[name] =>
                          LET n == Len(Existing(an.properties[name].nodeAnchorIndex.v,
                                                Len(files[p].nodeAnchor)))
                          IN \/ HoldsResolvedNodes(an, n)
                             \/ HoldsResolvedNodes(an.properties, n)
                             \/ HoldsResolvedNodes(an.properties[name], n)

\* the Features of a written file that come from anchor a
FeaturesOf(p, kind, a) ==
    {i \in 1..Len(fs[p][kind].features) : fs[p][kind].features[i].anchor = a}

\* C6: every segment anchor contributes at most one Feature to the
\* segments collection, however many of its references resolve.
C6_OneFeaturePerSegmentAnchor ==
    \A p \in Written("segments") :
        \A a \in 0..(Len(files[p].segmentAnchor) - 1) :
            Cardinality(FeaturesOf(p, "segments", a)) <= 1

\* the anchors of a loop that have been passed: all of them in a written
\* file, those before anchor_index while the loop of partition p runs
Passed(p, kind) ==
    IF p \in Written(kind) THEN Len(files[p][IF kind = "segments" THEN "segmentAnchor"
                                                ELSE "nodeAnchor"])
    ELSE IF p = f /\ pc = (IF kind = "segments" THEN "segment_anchors" ELSE "node_anchors")
         THEN anchor_index
         ELSE 0

\* the number of Features anchor a (0-based) of partition p has so far
Emitted(p, kind, a) ==
    IF p \in Written(kind) THEN Cardinality(FeaturesOf(p, kind, a))
    ELSE LET built == IF kind = "segments" THEN segment_anchor_with_topology_list
                      ELSE node_anchor_with_topology_list
         IN Cardinality({i \in 1..Len(built) : built[i].anchor = a})

SegmentResolves(anchor) ==
    \E r \in 1..Len(anchor.orientedSegmentRef) :
        SegmentFeatureFound(anchor.orientedSegmentRef[r])

NodeResolves(anchor) == NodeFeatureFound(anchor.nodeRef)

\* the anchor loop of the partition being processed was ended by an exception
\* at the anchor of position anchor_index - 1
CrashedInLoop(kind) ==
    /\ pc = "crashed" /\ anchor_index > 0
    /\ (kind = "nodes") = (fs[f].nodes.text = "empty")

\* C7: a segment anchor none of whose references is in the geometry index,
\* and a node anchor whose nodeRef is not in the node index, yields no
\* Feature and raises nothing; every anchor whose geometry resolves has its
\* Features in the list being built and in the collection written from it.
C7_UnresolvedGeometryRecoverable ==
    /\ \A p \in 1..Len(hmc_json) :
          /\ \A a \in 0..(Passed(p, "segments") - 1) :
                IF SegmentResolves(files[p].segmentAnchor[a + 1])
                THEN Emitted(p, "segments", a) >= 1
                ELSE Emitted(p, "segments", a) = 0
          /\ \A a \in 0..(Passed(p, "nodes") - 1) :
                IF NodeResolves(files[p].nodeAnchor[a + 1])
                THEN Emitted(p, "nodes", a) = 1
                ELSE Emitted(p, "nodes", a) = 0
    /\ CrashedInLoop("segments") => SegmentResolves(files[f].segmentAnchor[anchor_index])
    /\ CrashedInLoop("nodes") => NodeResolves(files[f].nodeAnchor[anchor_index])

\* a written segments collection lacks an anchor whose geometry does not
\* resolve and holds a later sibling whose geometry does
C7_DroppedSegmentAnchorWithSibling ==
    \E p \in Written("segments") :
        \E a, b \in 0..(Len(files[p].segmentAnchor) - 1) :
            /\ ~SegmentResolves(files[p].segmentAnchor[a + 1])
            /\ a < b
            /\ SegmentResolves(files[p].segmentAnchor[b + 1])
            /\ FeaturesOf(p, "segments", a) = {}
            /\ FeaturesOf(p, "segments", b) # {}

\* the same in a written nodes collection, the sibling cross-referenced
C7_DroppedNodeAnchorWithSibling ==
    \E p \in Written("nodes") :
        \E a, b \in 0..(Len(files[p].nodeAnchor) - 1) :
            /\ ~NodeResolves(files[p].nodeAnchor[a + 1])
            /\ a < b
            /\ NodeResolves(files[p].nodeAnchor[b + 1])
            /\ FeaturesOf(p, "nodes", a) = {}
            /\ \E i \in FeaturesOf(p, "nodes", b) :
                  "resolvedSegmentAnchors" \in DOMAIN fs[p].nodes.features[i].properties

\* the segment anchor record a Feature of a written file was built from
AnchorOf(p, i) == files[p].segmentAnchor[fs[p].segments.features[i].anchor + 1]

\* the offsets the documented defaults give: the field when it is present
DocumentedStartOffset(anchor) ==
    IF "firstSegmentStartOffset" \in DOMAIN anchor THEN anchor.firstSegmentStartOffset
    ELSE 0

DocumentedEndOffset(anchor) ==
    IF "lastSegmentEndOffset" \in DOMAIN anchor THEN anchor.lastSegmentEndOffset
    ELSE OffsetDen

InRange(o) == 0 <= o /\ o <= OffsetDen

OffsetsInRange(anchor) ==
    InRange(DocumentedStartOffset(anchor)) /\ InRange(DocumentedEndOffset(anchor))

\* the slice of the line of identifier between the offsets s and e
SliceBetween(identifier, s, e) ==
    LET g == Scale(SegmentFeatureMap[identifier])
    IN Substring(g, (LineLength(g) * s) \div OffsetDen, (LineLength(g) * e) \div OffsetDen)

\* C8: for every emitted Feature of an anchor with one reference and
\* offsets in [0,1], the offsets used are the fields when present (0.0
\* included) and 0.0 / 1.0 only when absent, and the coordinates are those
\* of the slice between them.
C8_OffsetDefaults ==
    \A p \in Written("segments") :
        \A i \in 1..Len(fs[p].segments.features) :
            LET an == AnchorOf(p, i)
            IN (Len(an.orientedSegmentRef) = 1 /\ OffsetsInRange(an)) =>
                  /\ segment_start_offset(an) = DocumentedStartOffset(an)
                  /\ segment_end_offset(an) = DocumentedEndOffset(an)
                  /\ fs[p].segments.features[i].geometry.coordinates =
                        SliceBetween(an.orientedSegmentRef[1], DocumentedStartOffset(an),
                                     DocumentedEndOffset(an)).coords

\* C9: a segment anchor with firstSegmentStartOffset or lastSegmentEndOffset
\* outside [0,1] makes the processing of its partition fail: no Feature is
\* built for the anchor and no segments collection is written.
C9_OffsetRangeFatal ==
    \A p \in 1..Len(hmc_json) :
        \A a \in 0..(Len(files[p].segmentAnchor) - 1) :
            ~OffsetsInRange(files[p].segmentAnchor[a + 1]) =>
                /\ Emitted(p, "segments", a) = 0
                /\ p \notin Written("segments")
                /\ ~(p = f /\ pc = "segment_anchors" /\ anchor_index > a)

\* C10: for every emitted Feature of an anchor with one reference and
\* offsets in [0,1], the geometry is a Point exactly when the two slicing
\* distances L*startOffset and L*endOffset are equal (L = 0 included), a
\* LineString otherwise, and the coordinates have the shape of the type: one
\* position for a Point, a list of two or more positions for a LineString.
C10_DegenerateSliceType ==
    \A p \in Written("segments") :
        \A i \in 1..Len(fs[p].segments.features) :
            LET an == AnchorOf(p, i)
                geometry == fs[p].segments.features[i].geometry
                L == LineLength(Scale(SegmentFeatureMap[an.orientedSegmentRef[1]]))
            IN (Len(an.orientedSegmentRef) = 1 /\ OffsetsInRange(an)) =>
                  /\ (geometry.type = "Point") =
                        (L * segment_start_offset(an) = L * segment_end_offset(an))
                  /\ geometry.type \in {"Point", "LineString"}
                  /\ geometry.type = "Point" =>
                        geometry.depth = 1 /\ Len(geometry.coordinates) = 1
                  /\ geometry.type = "LineString" =>
                        geometry.depth = 2 /\ Len(geometry.coordinates) >= 2

\* C10 for lines of positive length: the offsets are equal exactly when the
\* distances are, and the type matches the slice
C10_DegenerateSliceTypePositiveLength ==
    \A p \in Written("segments") :
        \A i \in 1..Len(fs[p].segments.features) :
            LET an == AnchorOf(p, i)
                geometry == fs[p].segments.features[i].geometry
                L == LineLength(Scale(SegmentFeatureMap[an.orientedSegmentRef[1]]))
            IN (Len(an.orientedSegmentRef) = 1 /\ OffsetsInRange(an) /\ L > 0) =>
                  /\ (geometry.type = "Point") =
                        (L * segment_start_offset(an) = L * segment_end_offset(an))
                  /\ geometry.type = "Point" =>
                        geometry.depth = 1 /\ Len(geometry.coordinates) = 1
                  /\ geometry.type = "LineString" =>
                        geometry.depth = 2 /\ Len(geometry.coordinates) >= 2

\* the distance of vertex i of the line g from its start
ArcLengthOf(g, i) == LineLength(SubSeq(g, 1, i))

\* the vertices of g from vertex i on whose distance from the start lies
\* strictly between lo and hi, in their order
RECURSIVE VerticesBetweenFrom(_, _, _, _)
VerticesBetweenFrom(g, i, lo, hi) ==
    IF i > Len(g) THEN <<>>
    ELSE (IF lo < ArcLengthOf(g, i) /\ ArcLengthOf(g, i) < hi THEN <<g[i]>> ELSE <<>>)
         \o VerticesBetweenFrom(g, i + 1, lo, hi)

\* the documented result of linear referencing on g between the offsets
\* s <= e (in units of 1/OffsetDen)
LinearReference(g, s, e) ==
    LET L == LineLength(g)
        startDist == (L * s) \div OffsetDen
        endDist == (L * e) \div OffsetDen
    IN IF s = e THEN <<PointAt(g, startDist)>>
       ELSE <<PointAt(g, startDist)>> \o VerticesBetweenFrom(g, 1, startDist, endDist)
            \o <<PointAt(g, endDist)>>

\* C11: for every emitted Feature of an anchor with one reference and
\* offsets 0 <= s <= e <= 1, the geometry runs from the point at arc length
\* L*s to the point at arc length L*e through exactly the vertices strictly
\* between them; it is the base line when (s,e) = (0,1) and a single Point
\* when s = e.
C11_LinearReferencing ==
    \A p \in Written("segments") :
        \A i \in 1..Len(fs[p].segments.features) :
            LET an == AnchorOf(p, i)
                geometry == fs[p].segments.features[i].geometry
                g == Scale(SegmentFeatureMap[an.orientedSegmentRef[1]])
                s == DocumentedStartOffset(an)
                e == DocumentedEndOffset(an)
            IN (Len(an.orientedSegmentRef) = 1 /\ 0 <= s /\ s <= e /\ e <= OffsetDen) =>
                  /\ geometry.coordinates = LinearReference(g, s, e)
                  /\ (s = 0 /\ e = OffsetDen) => geometry.coordinates = g
                  /\ (s = e) => geometry.type = "Point" /\ geometry.depth = 1

\* C11 for lines of positive length and an end offset that is not 0.0: the
\* slice itself is right; the failures of C11 are the end offset 0.0 (C8)
\* and the line of length 0 (C10)
C11_LinearReferencingPositive ==
    \A p \in Written("segments") :
        \A i \in 1..Len(fs[p].segments.features) :
            LET an == AnchorOf(p, i)
                geometry == fs[p].segments.features[i].geometry
                g == Scale(SegmentFeatureMap[an.orientedSegmentRef[1]])
                s == DocumentedStartOffset(an)
                e == DocumentedEndOffset(an)
            IN (/\ Len(an.orientedSegmentRef) = 1
                /\ 0 <= s /\ s <= e /\ 0 < e /\ e <= OffsetDen
                /\ LineLength(g) > 0) =>
                  /\ geometry.coordinates = LinearReference(g, s, e)
                  /\ (s = 0 /\ e = OffsetDen) => geometry.coordinates = g
                  /\ (s = e) => geometry.type = "Point" /\ geometry.depth = 1

OutputKinds == {"segments", "nodes"}

\* the anchor list the output file of kind is built from
AnchorsOf(p, kind) ==
    IF kind = "segments" THEN files[p].segmentAnchor ELSE files[p].nodeAnchor

\* the block of the script that makes the output file of kind for partition
\* p is behind the script, which has not been ended by an exception
BlockPassed(p, kind) ==
    \/ p < f /\ pc # "crashed"
    \/ /\ p = f
       /\ pc \in (IF kind = "segments" THEN {"nodes", "node_merge", "node_anchors"} ELSE {})
                 \cup {"street_names", "street_name_downloads", "walk", "done"}

\* the line that reports the output file of kind for partition p as
\* existing already
ExistingNotice(p, kind) ==
    Printed(IF kind = "segments" THEN "segments existing already"
            ELSE "nodes existing already", p)

\* how many times the script has printed line
TimesPrinted(line) == Cardinality({i \in 1..Len(stdout) : stdout[i] = line})

\* C12: an output file that exists when the run starts is never changed by
\* a run without the overwrite flag, so a second run leaves the files of the
\* first as they are, and the run reports it as existing already: once its
\* block is passed, the notice of the file has been printed once, and no
\* notice is printed for a file that is not kept; when a run ends, every
\* output file whose partition has anchors is either such a kept file or a
\* regenerated FeatureCollection, and with the overwrite flag none is kept.
C12_WriteOrSkip ==
    /\ [][\A p \in 1..Len(files) : \A kind \in OutputKinds :
             (fs[p][kind].text = "old" /\ overwrite_result # "y")
                 => fs'[p][kind] = fs[p][kind]]_vars
    /\ [](\A p \in 1..Len(files) : \A kind \in OutputKinds :
             LET kept == /\ AnchorsOf(p, kind) # <<>>
                         /\ fs[p][kind].text = "old"
                         /\ overwrite_result # "y"
             IN /\ (BlockPassed(p, kind) /\ kept) =>
                       TimesPrinted(ExistingNotice(p, kind)) = 1
                /\ TimesPrinted(ExistingNotice(p, kind)) > 0 => kept)
    /\ [](pc = "done" =>
             \A p \in 1..Len(files) : \A kind \in OutputKinds :
                 AnchorsOf(p, kind) # <<>> =>
                     /\ fs[p][kind].text \in {"old", "collection"}
                     /\ fs[p][kind].text = "old" => overwrite_result # "y")

\* a run without the overwrite flag has ended: it kept the segments file of
\* one partition, reported it as existing already, and wrote the nodes file
\* of the same partition without such a report
C12_SkippedAndWritten ==
    /\ pc = "done" /\ overwrite_result = "n"
    /\ \E p \in 1..Len(files) :
          /\ AnchorsOf(p, "segments") # <<>> /\ fs[p].segments = OldFile
          /\ TimesPrinted(ExistingNotice(p, "segments")) = 1
          /\ AnchorsOf(p, "nodes") # <<>> /\ fs[p].nodes.text = "collection"
          /\ TimesPrinted(ExistingNotice(p, "nodes")) = 0

\* a run with the overwrite flag has ended and regenerated an old file
C12_Regenerated ==
    /\ pc = "done" /\ overwrite_result = "y"
    /\ \E p \in 1..Len(files) : fs[p].segments.text = "collection"

\* C13: in every state, after a fatal error included, every output file is
\* absent, holds the content it had before the run, or holds a complete
\* FeatureCollection; it is never an empty or partial file.
C13_EmitAfterFullResolution ==
    \A p \in 1..Len(files) : \A kind \in OutputKinds :
        fs[p][kind].text \in {"none", "old", "collection"}

\* C13 for the states in which the script is not inside the with block of
\* an output file: the file is left empty by an exception only
C13_CompleteUnlessRaised ==
    pc \in {"walk", "segments", "nodes", "street_names", "done"} =>
        \A p \in 1..Len(files) : \A kind \in OutputKinds :
            fs[p][kind].text \in {"none", "old", "collection"}

\* C14: a fatal error aborts the partition being processed only: the run
\* never ends on an exception while partition files remain to be processed.
C14_FatalPerPartition ==
    pc = "crashed" => f = Len(files)

\* C15: the features of a partition are a function of that partition alone:
\* every resolvedSegmentAnchors list of its nodes file has one entry per
\* index that is a position of the partition's own segment anchor list, so
\* it is empty when the partition has no segment anchors, whatever
\* partitions were processed before.
C15_PartitionIsolation ==
    \A p \in Written("nodes") :
        \A i \in 1..Len(fs[p].nodes.features) :
            LET pm == fs[p].nodes.features[i].properties
            IN "resolvedSegmentAnchors" \in DOMAIN pm =>
                  \E name \in DOMAIN pm \ {"resolvedSegmentAnchors"} :
                      /\ "segmentAnchorIndex" \in DOMAIN pm[name]
                      /\ Len(pm.resolvedSegmentAnchors) =
                            Len(Existing(pm[name].segmentAnchorIndex.v,
                                         Len(files[p].segmentAnchor)))

\* C15 for the partitions that have segment anchors: segment_anchor_dict is
\* rebuilt for them at line 110
C15_IsolationWithSegmentAnchors ==
    \A p \in Written("nodes") :
        \A i \in 1..Len(fs[p].nodes.features) :
            LET pm == fs[p].nodes.features[i].properties
            IN ("resolvedSegmentAnchors" \in DOMAIN pm /\ files[p].segmentAnchor # <<>>) =>
                  \E name \in DOMAIN pm \ {"resolvedSegmentAnchors"} :
                      /\ "segmentAnchorIndex" \in DOMAIN pm[name]
                      /\ Len(pm.resolvedSegmentAnchors) =
                            Len(Existing(pm[name].segmentAnchorIndex.v,
                                         Len(files[p].segmentAnchor)))

\* partition p has been processed
Processed(p) == p < f \/ (p = f /\ pc \in {"street_names", "walk", "done"})

\* the partition names the streetSection collection of partition p refers to
StreetSectionNames(p) ==
    IF "streetSection" \notin Range(files[p].keys) THEN {}
    ELSE LET sections == files[p].coll["streetSection"]
         IN {sections[j].streetSectionRef.partitionName :
                j \in {i \in 1..Len(sections) :
                          /\ "streetSectionRef" \in DOMAIN sections[i]
                          /\ "partitionName" \in DOMAIN sections[i].streetSectionRef}}

\* C16: after a partition is processed, street_section_ref_set contains
\* the partitionName of the streetSectionRef of every element of the
\* partition's streetSection collection that has one, whatever index field
\* and index value the elements carry.
C16_StreetSectionAccumulated ==
    \A p \in 1..Len(files) :
        Processed(p) => StreetSectionNames(p) \subseteq street_section_ref_set

\* C16 for the collections a merge pass hands to
\* topology_anchor_attribute_mapping, the only place that scans them
C16_AccumulatedWhenMapped ==
    \A p \in 1..Len(files) :
        (/\ Processed(p)
         /\ "streetSection" \in Range(files[p].keys)
         /\ \/ /\ fs[p].segments.text = "collection"
               /\ SegmentIndexName(files[p].coll["streetSection"][1]) # ""
            \/ /\ fs[p].nodes.text = "collection"
               /\ NodeIndexName(files[p].coll["streetSection"]) # "")
        => StreetSectionNames(p) \subseteq street_section_ref_set

\* the accumulator only grows
C16_AccumulatorGrows ==
    [][street_section_ref_set \subseteq street_section_ref_set']_vars

\* no record of collection key is in the properties of any anchor of the
\* partition being processed
StoredNowhere(key) ==
    \A kind \in {"segmentAnchor", "nodeAnchor"} :
        \A a \in 1..Len(hmc_json[f][kind]) :
            key \notin DOMAIN hmc_json[f][kind][a].properties

\* the non-empty collections of the partition whose merge passes are over
\* or under way
DetectionCases ==
    IF pc \in {"segment_anchors", "node_anchors"}
    THEN {key \in Range(files[f].keys) : Len(files[f].coll[key]) > 0}
    ELSE {}

\* C17: the index field of a collection is decided from its first element
\* alone: when the first element carries an index field, whatever its
\* value (0 included), every element carrying valid positions under that
\* field is merged; when it carries none, no element of the collection is
\* merged.
C17_IndexKindDetection ==
    /\ \A c \in MergeCases :
          LET iv == files[f].coll[c[1]][c[2]][c[3]]
          IN (/\ c[3] \in DOMAIN files[f].coll[c[1]][1]
              /\ Range(iv.v) \subseteq ValidPositions(c[3]))
             => AttachedExactlyTo(c[1], c[2], c[3], Range(iv.v))
    /\ \A key \in DetectionCases :
          IndexFieldsOf(files[f].coll[key][1]) = {} => StoredNowhere(key)

\* what the passes do: the segment pass decides by the truth value of the
\* index of the first element, the node pass by the truth value of the
\* nodeAnchorIndex of any element
C17_TruthValueDetection ==
    /\ \A c \in MergeCases :
          LET iv == files[f].coll[c[1]][c[2]][c[3]]
          IN (Sniffed(c[1], c[3]) /\ Range(iv.v) \subseteq ValidPositions(c[3]))
             => AttachedExactlyTo(c[1], c[2], c[3], Range(iv.v))
    /\ \A key \in DetectionCases :
          (\A nm \in IndexNames : ~Sniffed(key, nm)) => StoredNowhere(key)

AnchorListNames == {"segmentAnchor", "nodeAnchor"}

\* the index field through which the merge pass of the anchors of kind
\* attaches the records of collection key of partition p
AttachedThrough(p, kind, key) ==
    IF kind = "nodeAnchor" THEN "nodeAnchorIndex"
    ELSE SegmentIndexName(files[p].coll[key][1])

\* record now (as the script holds it) is the record orig of the file less
\* index fields through which the passes attach the collection key
OnlyIndexRemoved(p, key, now, orig) ==
    /\ DOMAIN now \subseteq DOMAIN orig
    /\ \A k \in DOMAIN now : now[k] = orig[k]
    /\ DOMAIN orig \ DOMAIN now \subseteq
          {AttachedThrough(p, kind, key) : kind \in AnchorListNames}

\* C18: every record stored in an anchor's properties carried, in the file,
\* the index field through which it was attached and no longer contains
\* it, its other fields being unchanged; after a merge pass no record of a
\* collection the pass merged contains the index field of the pass.
C18_IndexFieldRemoved ==
    /\ \A p \in 1..Len(hmc_json) : \A kind \in AnchorListNames :
          \A a \in 1..Len(hmc_json[p][kind]) :
              \A key \in DOMAIN hmc_json[p][kind][a].properties :
                  LET j == hmc_json[p][kind][a].properties[key]
                      now == hmc_json[p].coll[key][j]
                      orig == files[p].coll[key][j]
                      nm == AttachedThrough(p, kind, key)
                  IN /\ nm \in DOMAIN orig
                     /\ nm \notin DOMAIN now
                     /\ OnlyIndexRemoved(p, key, now, orig)
    /\ pc \in {"segment_anchors", "node_anchors"} =>
          \A key \in Range(files[f].keys) : \A nm \in IndexNames :
              (MergedFor(nm) /\ Sniffed(key, nm)) =>
                  \A j \in 1..Len(hmc_json[f].coll[key]) :
                      /\ nm \notin DOMAIN hmc_json[f].coll[key][j]
                      /\ OnlyIndexRemoved(f, key, hmc_json[f].coll[key][j],
                                          files[f].coll[key][j])

\* a segment anchor and a node anchor of one partition both hold a record
\* that carried segmentAnchorIndex and nodeAnchorIndex in the file
C18_RecordAttachedTwice ==
    \E p \in 1..Len(hmc_json) :
        \E a \in 1..Len(hmc_json[p].segmentAnchor), b \in 1..Len(hmc_json[p].nodeAnchor) :
            \E key \in DOMAIN hmc_json[p].segmentAnchor[a].properties :
                /\ key \in DOMAIN hmc_json[p].nodeAnchor[b].properties
                /\ hmc_json[p].segmentAnchor[a].properties[key] =
                      hmc_json[p].nodeAnchor[b].properties[key]
                /\ {"segmentAnchorIndex", "nodeAnchorIndex"} \subseteq
                      DOMAIN files[p].coll[key][hmc_json[p].nodeAnchor[b].properties[key]]

\* the merged property map of anchor a (0-based) of kind of partition p:
\* collection name to residual record
MergedPropertyMap(p, kind, a) ==
    LET an == hmc_json[p][kind][a + 1]
    IN IF an.hasProps THEN PropsJSON(hmc_json[p], an.properties) ELSE EmptyMap

ResolvedKeys == {"resolvedNodeAnchors", "resolvedSegmentAnchors"}

\* properties is the property map m, possibly with resolved arrays added
IsPropertyMap(properties, m) ==
    /\ DOMAIN properties \ ResolvedKeys = DOMAIN m
    /\ \A name \in DOMAIN m : properties[name] = m[name]

\* the partition whose output file of kind has just been written, while
\* the objects it was written from are as they were
JustWritten(kind) ==
    IF /\ pc = (IF kind = "segments" THEN "nodes" ELSE "street_names")
       /\ fs[f][kind].text = "collection"
    THEN {f} ELSE {}

\* C19: the properties of every emitted Feature, segment or node, is the
\* anchor's merged property map (collection name to residual record, plus
\* the resolved arrays), not the anchor record with its reference fields.
C19_FeatureProperties ==
    /\ \A p \in JustWritten("segments") :
          \A i \in 1..Len(fs[p].segments.features) :
              LET feature == fs[p].segments.features[i]
              IN /\ "orientedSegmentRef" \notin DOMAIN feature.properties
                 /\ IsPropertyMap(feature.properties,
                                  MergedPropertyMap(p, "segmentAnchor", feature.anchor))
    /\ \A p \in JustWritten("nodes") :
          \A i \in 1..Len(fs[p].nodes.features) :
              LET feature == fs[p].nodes.features[i]
              IN /\ "nodeRef" \notin DOMAIN feature.properties
                 /\ IsPropertyMap(feature.properties,
                                  MergedPropertyMap(p, "nodeAnchor", feature.anchor))

\* C19 for node Features, and what segment Features hold instead: the
\* anchor record with the property map under its key 'properties'
C19_NodePropertiesSegmentAnchors ==
    /\ \A p \in JustWritten("segments") :
          \A i \in 1..Len(fs[p].segments.features) :
              LET feature == fs[p].segments.features[i]
              IN /\ "orientedSegmentRef" \in DOMAIN feature.properties
                 /\ feature.properties.properties =
                       MergedPropertyMap(p, "segmentAnchor", feature.anchor)
    /\ \A p \in JustWritten("nodes") :
          \A i \in 1..Len(fs[p].nodes.features) :
              LET feature == fs[p].nodes.features[i]
              IN /\ "nodeRef" \notin DOMAIN feature.properties
                 /\ IsPropertyMap(feature.properties,
                                  MergedPropertyMap(p, "nodeAnchor", feature.anchor))

\* holder carries under key a resolved list of n entries
HoldsResolved(holder, key, n) ==
    /\ key \in DOMAIN holder
    /\ Len(holder[key]) = n

\* C20: the resolved list is stored on the property record that carried
\* the index: every record of an emitted anchor's property map that
\* contains a cross-reference index holds its own resolved list, built
\* from its own indices.
C20_ResolvedListOnRecord ==
    /\ \A p \in Written("nodes") :
          \A i \in 1..Len(fs[p].nodes.features) :
              LET pm == fs[p].nodes.features[i].properties
              IN \A name \in DOMAIN pm \ ResolvedKeys :
                    "segmentAnchorIndex" \in DOMAIN pm[name] =>
                        HoldsResolved(pm[name], "resolvedSegmentAnchors",
                                      Len(Existing(pm[name].segmentAnchorIndex.v,
                                                   Len(files[p].segmentAnchor))))
    /\ \A p \in Written("segments") :
          \A i \in 1..Len(fs[p].segments.features) :
              LET an == fs[p].segments.features[i].properties
              IN "properties" \in DOMAIN an =>
                    \A name \in DOMAIN an.properties :
                        "nodeAnchorIndex" \in DOMAIN an.properties[name] =>
                            HoldsResolved(an.properties[name], "resolvedNodeAnchors",
                                          Len(Existing(an.properties[name].nodeAnchorIndex.v,
                                                       Len(files[p].nodeAnchor))))

\* the position of a collection name in the key order of partition p
KeyPosition(p, name) == CHOOSE i \in 1..Len(files[p].keys) : files[p].keys[i] = name

\* what the node loop stores, for partitions that have segment anchors: one
\* list on the property map, built from the indices of the last record, in
\* key order, that contains segmentAnchorIndex
C20_OneListOnPropertyMap ==
    \A p \in Written("nodes") :
        \A i \in 1..Len(fs[p].nodes.features) :
            LET pm == fs[p].nodes.features[i].properties
                carriers == {name \in DOMAIN pm \ ResolvedKeys :
                                "segmentAnchorIndex" \in DOMAIN pm[name]}
            IN files[p].segmentAnchor # <<>> =>
                  /\ \A name \in carriers : "resolvedSegmentAnchors" \notin DOMAIN pm[name]
                  /\ ("resolvedSegmentAnchors" \in DOMAIN pm) = (carriers # {})
                  /\ carriers # {} =>
                        LET last == CHOOSE name \in carriers :
                                       \A other \in carriers :
                                           KeyPosition(p, other) <= KeyPosition(p, name)
                        IN Len(pm.resolvedSegmentAnchors) =
                              Len(Existing(pm[last].segmentAnchorIndex.v,
                                           Len(files[p].segmentAnchor)))

\* the attribute merge of the anchor list kind has run to its end for
\* partition p: line 123 (225) gave every anchor its property map and the
\* pass raised nothing
MergeCompleted(p, kind) ==
    /\ pc \notin {"segment_merge", "node_merge", "crashed"} \/ p # f
    /\ \A i \in 1..Len(hmc_json[p][kind]) : hmc_json[p][kind][i].hasProps

\* the cross-reference step of lines 176-184 (245-253) has run for an
\* anchor of the partition being processed
CrossReferenceStepRan(kind) ==
    IF kind = "segments"
    THEN pc = "segment_anchors" /\ segment_anchor_with_topology_list # <<>>
    ELSE pc = "node_anchors" /\ node_anchor_with_topology_list # <<>>

\* C21: within one partition the cross-references of an anchor, segment or
\* node, are resolved only after the attribute merge has completed for
\* both the segment anchors and the node anchors of that partition.
C21_PhaseOrdering ==
    \A kind \in OutputKinds :
        CrossReferenceStepRan(kind) =>
            /\ MergeCompleted(f, "segmentAnchor")
            /\ MergeCompleted(f, "nodeAnchor")

\* C21 as the script orders the phases: the cross-references of an anchor
\* are resolved after the merge of its own kind, and the node pass comes
\* after the segment pass whenever the segment pass runs
C21_ResolutionAfterOwnMerge ==
    /\ CrossReferenceStepRan("segments") => MergeCompleted(f, "segmentAnchor")
    /\ CrossReferenceStepRan("nodes") =>
          /\ MergeCompleted(f, "nodeAnchor")
          /\ fs[f].segments.text # "old" => MergeCompleted(f, "segmentAnchor")

\* the lines of the output that tell of progress, not of an anchor: the
\* path of a partition file, a kept output file, the street-name partitions
\* and their download
ProgressMessages ==
    {"path", "segments existing already", "nodes existing already",
     "street-name reference partitions", "download street-name reference layers",
     "HERE Platform Status", "layer", "created", "skipped"}

\* the positions in the output of the warnings printed for partition p
Warnings(p) ==
    {i \in 1..Len(stdout) : stdout[i].part = p /\ stdout[i].msg \notin ProgressMessages}

\* the anchors of partition p an anchor loop has passed and left out of its
\* collection because the index lacks their geometry
Dropped(p) ==
    {<<kind, a>> \in OutputKinds \X (0..(MaxAnchors - 1)) :
        /\ a < Passed(p, kind)
        /\ IF kind = "segments" THEN ~SegmentResolves(files[p].segmentAnchor[a + 1])
           ELSE ~NodeResolves(files[p].nodeAnchor[a + 1])
        /\ Emitted(p, kind, a) = 0}

\* C22: every anchor left out of the output because its geometry is not
\* found has a warning in the output of the script: a partition has at least
\* as many warnings as anchors dropped so far.
C22_DroppedAnchorReported ==
    \A p \in 1..Len(hmc_json) : Cardinality(Warnings(p)) >= Cardinality(Dropped(p))

\* what the script prints for a partition: its path once, then nothing but
\* the notices of kept files and of street-name partitions, whatever the
\* number of anchors dropped
C22_DroppedSilently ==
    \A p \in 1..Len(hmc_json) :
        /\ Warnings(p) = {}
        /\ Cardinality({i \in 1..Len(stdout) :
                           stdout[i] = Printed("path", p)}) = 1

\* a nodes collection was written without one of the node anchors
C22_NodeAnchorDropped ==
    \E p \in Written("nodes") : \E a \in 0..(MaxAnchors - 1) : <<"nodes", a>> \in Dropped(p)

\* the Features of list come in the order of the anchors they were built
\* from: none of a later anchor stands before one of an earlier anchor
InAnchorOrder(list) ==
    \A i, j \in 1..Len(list) : i < j => list[i].anchor <= list[j].anchor

\* C23: in every collection written, and in the lists the anchor loops
\* build, the Features stand in the order of their anchors in the
\* partition's anchor collection (the several Features one segment anchor
\* may yield stand together).
C23_OutputOrder ==
    /\ InAnchorOrder(segment_anchor_with_topology_list)
    /\ InAnchorOrder(node_anchor_with_topology_list)
    /\ \A p \in 1..Len(hmc_json) : \A kind \in OutputKinds :
          InAnchorOrder(fs[p][kind].features)

\* a segments collection was written with the Features of two anchors,
\* that of the first anchor at its head
C23_TwoAnchorsWritten ==
    \E p \in Written("segments") :
        /\ Len(fs[p].segments.features) >= 2
        /\ fs[p].segments.features[1].anchor = 0
        /\ fs[p].segments.features[Len(fs[p].segments.features)].anchor = 1

\* the entries of the resolved lists of the Features of a written file:
\* those under a resolved key of the Feature's properties
ResolvedEntries(p, kind) ==
    UNION {Range(fs[p][kind].features[i].properties[key]) :
              <<i, key>> \in {c \in (1..Len(fs[p][kind].features)) \X ResolvedKeys :
                                c[2] \in DOMAIN fs[p][kind].features[c[1]].properties}}

\* C24: resolution is one level deep: no entry of a resolvedSegmentAnchors
\* or resolvedNodeAnchors list of a written collection carries a
\* resolvedNodeAnchors or resolvedSegmentAnchors key of its own.
C24_OneLevelDeep ==
    \A p \in 1..Len(hmc_json) : \A kind \in OutputKinds :
        \A entry \in ResolvedEntries(p, kind) : DOMAIN entry \cap ResolvedKeys = {}

\* what bounds the nesting in the script: an entry is a segment anchor
\* dict, and the resolved list such a dict may carry is empty, so the
\* output nests two levels at most and every resolution ends
C24_NestedListEmpty ==
    \A p \in 1..Len(hmc_json) : \A kind \in OutputKinds :
        \A entry \in ResolvedEntries(p, kind) :
            /\ "orientedSegmentRef" \in DOMAIN entry
            /\ \A key \in DOMAIN entry \cap ResolvedKeys : entry[key] = <<>>

\* the records of collection key that name anchor a (0-based) in the index
\* field nm
TargetingRecords(key, nm, a) ==
    {j \in 1..Len(files[f].coll[key]) :
        /\ nm \in DOMAIN files[f].coll[key][j]
        /\ a \in Range(files[f].coll[key][j][nm].v)}

LastOf(S) == CHOOSE j \in S : \A k \in S : k <= j

\* every record of collection key carries the index field nm with valid
\* positions, and something besides
WellFormedCollection(key, nm) ==
    \A j \in 1..Len(files[f].coll[key]) :
        /\ IndexFieldsOf(files[f].coll[key][j]) = {nm}
        /\ DOMAIN files[f].coll[key][j] # {nm}
        /\ Range(files[f].coll[key][j][nm].v) \subseteq ValidPositions(nm)

\* the entry of anchor a under key is what the records of key alone give:
\* the residual of the last record that names a, none when no record does
EntryAsMerged(key, nm, a) ==
    IF TargetingRecords(key, nm, a) = {}
    THEN key \notin DOMAIN hmc_json[f][AnchorKind(nm)][a + 1].properties
    ELSE StoredAt(nm, a, key,
                  Without(files[f].coll[key][LastOf(TargetingRecords(key, nm, a))], nm))

\* the collisions of the partition being processed: a collection, its index
\* field and an anchor that two or more of its records name
CollisionCases ==
    IF f = 0 THEN {}
    ELSE {c \in Range(files[f].keys) \X IndexNames \X (0..(MaxAnchors - 1)) :
            /\ c[3] \in ValidPositions(c[2])
            /\ \A key \in Range(files[f].keys) : WellFormedCollection(key, c[2])
            /\ Cardinality(TargetingRecords(c[1], c[2], c[3])) >= 2}

\* C25: when two or more records of one collection name the same anchor,
\* then after the merge the anchor's entry under the collection name is the
\* residual of the last of them in collection order, and the entries under
\* the other collection names are what their own records give.
C25_LastWriteWins ==
    \A c \in CollisionCases :
        MergedFor(c[2]) =>
            \A key \in Range(files[f].keys) : EntryAsMerged(key, c[2], c[3])

\* C25 where the pass finds the index field of every collection: the
\* failures of C25 are the collections the truth test of lines 127-133 and
\* 229 skips
C25_LastWriteWinsWhenSniffed ==
    \A c \in CollisionCases :
        (MergedFor(c[2]) /\ \A key \in Range(files[f].keys) : Sniffed(key, c[2])) =>
            \A key \in Range(files[f].keys) : EntryAsMerged(key, c[2], c[3])

\* the merge is over for an anchor that both records of one collection and
\* the record of another name; it holds the second record's residual
C25_CollisionMerged ==
    /\ pc = "segment_anchors"
    /\ files[f].keys = <<"speedLimit", "signal">>
    /\ <<"speedLimit", "segmentAnchorIndex", 1>> \in CollisionCases
    /\ TargetingRecords("signal", "segmentAnchorIndex", 1) # {}
    /\ StoredAt("segmentAnchorIndex", 1, "speedLimit", [value |-> 2])
    /\ StoredAt("segmentAnchorIndex", 1, "signal", [value |-> 3])

\* ---------------------------- the nodes collection as a function of the run
\* lines 138-197 for the anchors from position k on, in the first partition
\* of a run (node_anchor_dict is still unbound)
RECURSIVE SegmentLoopFrom(_, _)
SegmentLoopFrom(obj, k) ==
    IF k >= Len(obj.segmentAnchor) THEN [obj |-> obj, err |-> "none"]
    ELSE LET r == SegmentAnchorStep(obj.segmentAnchor[k + 1], k, 0)
             obj1 == [obj EXCEPT !.segmentAnchor[k + 1] = r.anchor]
         IN IF r.err # "none" THEN [obj |-> obj1, err |-> r.err]
            ELSE SegmentLoopFrom(obj1, k + 1)

\* lines 109-202: what the segment block leaves of the loaded objects when
\* the segments file is kept (skipped) and when it is regenerated
SegmentBlock(obj, skipped) ==
    IF skipped \/ obj.segmentAnchor = <<>> THEN [obj |-> obj, err |-> "none"]
    ELSE LET m == SegmentMerge(obj, {})
         IN IF m.err # "none" THEN [obj |-> m.obj, err |-> m.err]
            ELSE SegmentLoopFrom(m.obj, 0)

\* lines 232-254 for the anchors from position k on; segment_anchor_dict
\* enumerates the segment anchors of the same partition, or is unbound when
\* the partition has none; an anchor whose pass raises keeps what the pass
\* stored on it before
RECURSIVE NodeLoopFrom(_, _, _)
NodeLoopFrom(obj, k, built) ==
    IF k >= Len(obj.nodeAnchor) THEN [obj |-> obj, built |-> built, err |-> "none"]
    ELSE LET seg_dict == IF obj.segmentAnchor = <<>> THEN 0 ELSE 1
             r == NodeAnchorStep(<<obj>>, obj, obj.nodeAnchor[k + 1], k, seg_dict)
             obj1 == [obj EXCEPT !.nodeAnchor[k + 1] = r.anchor]
         IN IF r.err # "none" THEN [obj |-> obj1, built |-> built, err |-> r.err]
            ELSE NodeLoopFrom(obj1, k + 1, built \o r.built)

\* lines 92-261 for a folder of one partition file whose nodes file is
\* written: the Features of the nodes collection, or the exception raised
NodesCollection(file, skipped) ==
    LET s == SegmentBlock(LoadJson(file), skipped)
    IN IF s.err # "none" THEN [features |-> <<>>, err |-> s.err]
       ELSE LET m == NodeMerge(s.obj, {})
            IN IF m.err # "none" THEN [features |-> <<>>, err |-> m.err]
               ELSE LET n == NodeLoopFrom(m.obj, 0, <<>>)
                    IN IF n.err # "none" THEN [features |-> <<>>, err |-> n.err]
                       ELSE [features |-> [i \in 1..Len(n.built) |->
                                              NodeFeatureJSON(<<n.obj>>, n.obj, n.built[i])],
                             err |-> "none"]

\* a run over one partition with segment anchors has written its nodes file
NodesWrittenAlone ==
    /\ Len(files) = 1 /\ f = 1
    /\ files[1].segmentAnchor # <<>>
    /\ fs[1].nodes.text = "collection"

\* the segments file of the run was kept
SegmentsSkipped == fs[1].segments.text = "old"

\* C27: the nodes collection of a partition is the same whether the run
\* regenerated the segments file or kept an existing one: the collection a
\* run has written is the one the other decision gives for the same input.
C27_NodesIndependentOfSegmentSkip ==
    NodesWrittenAlone =>
        NodesCollection(files[1], ~SegmentsSkipped) =
            [features |-> fs[1].nodes.features, err |-> "none"]

\* the nodes collection a run has written is the one the function gives
\* for the decision the run took: the function is the run
C27_NodesCollectionOfRun ==
    NodesWrittenAlone =>
        NodesCollection(files[1], SegmentsSkipped) =
            [features |-> fs[1].nodes.features, err |-> "none"]

\* C27 for the partitions whose segment pass finds no collection to merge:
\* there the pass changes no record the node pass reads
C27_IndependentWhenNothingMerged ==
    (/\ NodesWrittenAlone
     /\ \A i \in 1..Len(files[1].keys) :
           SegmentIndexName(files[1].coll[files[1].keys[i]][1]) = "") =>
        LET other == NodesCollection(files[1], ~SegmentsSkipped)
        IN /\ other.err = "none"
           /\ \A i \in 1..Len(other.features) :
                 /\ other.features[i].anchor = fs[1].nodes.features[i].anchor
                 /\ DOMAIN other.features[i].properties
                        = DOMAIN fs[1].nodes.features[i].properties

\* ------------------------------------------------ claims on the downloader
\* C26: during olp_cli_download_partition there are never more than
\* max_workers partition downloads in progress, however many partition ids
\* are requested.
C26_BoundedConcurrency == InProgress <= max_workers

\* the pool of two or more threads is full while ids wait in the queue
C26_PoolSaturated ==
    /\ max_workers >= 2
    /\ Cardinality(Running) = max_workers
    /\ \A i \in Running : futures[i].state = "cli"
    /\ \E i \in 1..Len(futures) : futures[i].state = "pending"

\* the number of CLI downloads started for a partition id, over the paths
\* of all its versions
RECURSIVE StartsOver(_, _)
StartsOver(partition_id, vs) ==
    IF vs = {} THEN 0
    ELSE LET v == CHOOSE x \in vs : TRUE
             path == get_cli_output_filepath(partition_id, v)
         IN (IF path \in DOMAIN cli_downloads THEN cli_downloads[path] ELSE 0)
            + StartsOver(partition_id, vs \ {v})

StartsOf(partition_id) == StartsOver(partition_id, Versions)

\* C28: one call with distinct partition ids starts the CLI download of
\* each id exactly once, and no output file path is written by two
\* downloads.
C28_DownloadOnce ==
    /\ \A path \in DOMAIN cli_downloads : cli_downloads[path] <= 1
    /\ call = "returned" => \A i \in 1..Len(quad_ids) : StartsOf(quad_ids[i]) = 1

\* what the call does: the pool starts at most one download per id, on
\* paths of their own; the loop of lines 281-296 then starts one more per
\* id on the same path, after the pool has ended; a call that returns has
\* started one or two downloads per id
C28_OncePerPhase ==
    /\ call \in {"submit", "as_completed"} =>
          \A path \in DOMAIN cli_downloads : cli_downloads[path] <= 1
    /\ \A i \in 1..Len(quad_ids) : StartsOf(quad_ids[i]) <= 2
    /\ \A i, j \in Running :
          (i # j /\ futures[i].state = "cli" /\ futures[j].state = "cli") =>
              get_cli_output_filepath(quad_ids[i], futures[i].ver)
                  # get_cli_output_filepath(quad_ids[j], futures[j].ver)
    /\ sequential.state # "idle" => Running = {}
    /\ call = "returned" =>
          \A i \in 1..Len(quad_ids) :
              StartsOf(quad_ids[i]) = (IF futures[i].ver = 0 THEN 1 ELSE 2)

\* the call has ended, by return or by an exception
Ended == call \in {"returned", "raised"}

\* the failed pool download of every id is reported on the output
FailuresReported ==
    \A i \in 1..Len(futures) :
        futures[i].state = "failed" =>
            \E n \in 1..Len(stdout) : stdout[n] = Printed("Partition failed", quad_ids[i])

\* when the call has ended, the download of every requested id has been
\* attempted
AllAttempted ==
    Ended => \A i \in 1..Len(futures) : futures[i].state \in {"ok", "failed"}

\* C29: a failed download of one partition id (non-zero return code or
\* failed version detection) is reported, does not prevent the download of
\* any other id from being attempted, and the call returns normally: it
\* never ends by an exception.
C29_FailureIsolation ==
    /\ FailuresReported
    /\ AllAttempted
    /\ call # "raised"

\* C29 for the thread pool: there every failure is caught and reported and
\* every id is attempted; the call ends by an exception only in the loop of
\* lines 281-296, which nothing guards, and then leaves the ids after the
\* failed one without their second download
C29_PoolFailureIsolation ==
    /\ FailuresReported
    /\ AllAttempted
    /\ call = "raised" =>
          /\ partition_index < Len(quad_ids)
          /\ \A i \in (partition_index + 2)..Len(quad_ids) :
                StartsOf(quad_ids[i]) <= 1

====
